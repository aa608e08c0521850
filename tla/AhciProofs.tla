----------------------------- MODULE AhciProofs -----------------------------
(***************************************************************************)
(* Proofs about Ahci, for any number of slots, calls, polls, sectors and   *)
(* buffers: a call that returns 0 had its command executed exactly once    *)
(* (SuccessRanOnce), the driver and the HBA stay apart (HbaApart), and     *)
(* what is fetched and read is what was meant (TransfersExact).            *)
(*                                                                         *)
(* The inductive invariant follows a command through the hands it passes:  *)
(* the slot is the driver's from find_cmdslot until PxCI is written        *)
(* (Hands), what the table and the HBA's copy of it hold (Tables), how     *)
(* often the command of the call in progress ran (Runs), that no bit which *)
(* is or will be set in PxCI leads to the command of a call that returned  *)
(* 0 (Spent), and that the HBA has nothing but the current command as long *)
(* as no call left one behind (Abandoned).                                 *)
(***************************************************************************)
EXTENDS Ahci, TLAPS

Bringup == {"stop_st", "stop_fre", "stop_wait", "rebase", "start_wait", "start_fre", "start_st"}
Unissued == {"tfd", "ci_read", "ci_write"}
Placed == Unissued \cup Issued
Calling == {"find"} \cup Placed

\* The command of the call in progress.
CallCmd == [id |-> call.id, op |-> call.op, sector |-> call.sector, buf |-> call.buf]

\* The types of the state, of the HBA's copy and of the call in progress.
Types ==
    /\ TypeOK
    /\ ncalls \in 0..MAXCALLS
    /\ cur # None => cur \in [slot : Slot, cmd : Cmd \cup {Zeroed}, done : BOOLEAN]
    /\ pc \in Calling =>
         /\ call \in [id : Id, op : {"read", "write"}, sector : Sector, buf : Buf,
                      n : Nat, slot : Slot \cup {None}]
         /\ call.id = ncalls
         /\ call.slot # None <=> pc # "find"

\* During bring-up no command is issued, and once the HBA has followed ST and
\* FRE it stays stopped until the driver sets them again.
BringUp ==
    /\ pc \in Bringup => ci = {} /\ cur = None
    /\ pc \in Bringup \ {"stop_st"} => ~st
    /\ pc \in Bringup \ {"stop_st", "stop_fre", "start_st"} => ~fre
    /\ pc \in {"rebase", "start_wait", "start_fre"} => ~cr /\ ~fr

\* Whose a slot is: the HBA works on a slot of PxCI; the slot a call has chosen
\* is not in PxCI before the call sets it, nor after it was seen clear.
Hands ==
    /\ cur # None => cur.slot \in ci /\ ~halted
    /\ pc \in Unissued => call.slot \notin ci
    /\ pc = "ci_write" => call.slot \notin snap
    /\ pc = "last_tfd" => call.slot \notin ci

\* Tables and the HBA's copy hold commands of calls made so far; that of the
\* call in progress is in the table of its slot only, and what the HBA executes
\* in that slot is this command.
Tables ==
    /\ \A s \in Slot : table[s].id <= ncalls
    /\ cur # None => cur.cmd.id <= ncalls
    /\ pc \in Placed => table[call.slot] = CallCmd
    /\ pc \in Calling => \A s \in Slot : table[s].id = call.id => pc # "find" /\ s = call.slot
    /\ pc \in Calling /\ cur # None =>
         /\ cur.cmd.id = call.id => pc \in Issued /\ cur.slot = call.slot
         /\ pc \in Issued /\ cur.slot = call.slot => cur.cmd = CallCmd

\* How often the command of the call in progress was executed; a halted HBA may
\* have executed a command it did not complete.
Runs ==
    /\ \A i \in Id : i > ncalls => runs[i] = 0 /\ result[i] = None
    /\ pc \in Calling => result[call.id] = None
    /\ pc \in Calling \ Issued => runs[call.id] = 0
    /\ pc \in Issued /\ call.slot \notin ci => runs[call.id] = 1
    /\ pc \in Issued /\ call.slot \in ci /\ ~halted =>
         runs[call.id] = IF cur # None /\ cur.slot = call.slot /\ cur.done THEN 1 ELSE 0

\* The command of a call that returned 0 ran once, and neither a bit of PxCI,
\* nor one about to be written back to it, nor the HBA's copy leads to it.
Spent ==
    \A i \in Id : result[i] = 0 =>
        /\ runs[i] = 1
        /\ \A s \in Slot : table[s].id = i => s \notin ci /\ (pc = "ci_write" => s \notin snap)
        /\ cur # None => cur.cmd.id # i

\* Until a call returns with its command in PxCI, PxCI holds the slot of the
\* call in progress at most, and only once it is issued; when the command is
\* through, buffer and sector agree.
Abandoned ==
    ~lost => /\ ci # {} => pc \in Issued /\ ci = {call.slot}
             /\ pc = "ci_write" => snap = {}
             /\ pc \in Issued /\ (call.slot \notin ci \/ (cur # None /\ cur.done)) =>
                  mem[call.buf] = disk[call.sector]

Inv == Types /\ BringUp /\ Hands /\ Tables /\ Runs /\ Spent /\ Abandoned /\ DiskDurable

-----------------------------------------------------------------------------
(* Each part of the invariant is kept by every step. *)

(* A call that returns leaves the types as they are. *)
LEMMA ReturnTypes ==
    ASSUME Types, pc \in Calling, NEW r \in {0, 1}, Return(r), UNCHANGED <<port, hba, table, mem>>
    PROVE  Types'
<1> USE AhciAssumption DEF Types, TypeOK, Return, port, hba, Pc
<1>1. result' \in [Id -> {0, 1, None}]
    OBVIOUS
<1>2. shadow' \in [Sector -> Data \cup {None}]
    OBVIOUS
<1>3. pc' = "idle" /\ lost' \in BOOLEAN /\ UNCHANGED <<call, snap, spin, ncalls>>
    OBVIOUS
<1> QED
    BY <1>1, <1>2, <1>3 DEF Calling, Unissued, Placed, Issued

(* Every step keeps the types. *)
LEMMA TypesStep ==
    ASSUME Inv, [Next]_vars
    PROVE  Types'
<1> USE AhciAssumption DEF port, hba, ghost, Inv, Types, TypeOK, Id, Bringup,
      Unissued, Placed, Calling, Issued, Pc
<1>0. pc \in Placed => call.slot \in Slot
    OBVIOUS
<1>1. CASE StopSt
    BY <1>0, <1>1 DEF StopSt, Goto
<1>2. CASE StopFre
    BY <1>0, <1>2 DEF StopFre, Goto
<1>3. CASE StopWait
    BY <1>0, <1>3 DEF StopWait, Goto
<1>4. CASE Rebase
    BY <1>0, <1>4 DEF Rebase, Goto
<1>5. CASE StartWait
    BY <1>0, <1>5 DEF StartWait, Goto
<1>6. CASE StartFre
    BY <1>0, <1>6 DEF StartFre, Goto
<1>7. CASE StartSt
    BY <1>0, <1>7 DEF StartSt, Goto
<1>8. CASE NoSlot
    BY <1>0, ReturnTypes, <1>8 DEF NoSlot, Return
<1>9. ASSUME NEW s \in Slot, FindBuild(s) PROVE Types'
  <2>1. CASE Return(1) /\ UNCHANGED table
    BY <1>9, <2>1, ReturnTypes DEF FindBuild
  <2>2. CASE call.n <= MAXPRDT /\ pc' = "tfd"
    <3>1. table' \in [Slot -> Cmd \cup {Zeroed}]
      BY <1>9, <2>2 DEF FindBuild, Built, Return, Cmd
    <3>2. /\ call' \in [id : Id, op : {"read", "write"}, sector : Sector, buf : Buf,
                        n : Nat, slot : Slot \cup {None}]
          /\ call'.id = ncalls' /\ call'.slot = s /\ s # None
      BY <1>9, <2>2 DEF FindBuild, Return, Slot
    <3> QED
      BY <1>9, <2>2, <3>1, <3>2 DEF FindBuild, Return
  <2> QED
    BY <1>9, <2>1, <2>2 DEF FindBuild
<1>10. CASE WaitIdle
    BY <1>0, ReturnTypes, <1>10, SMTT(60) DEF WaitIdle, Return
<1>11. CASE ReadCi
    BY <1>0, <1>11 DEF ReadCi, Goto
<1>12. CASE WriteCi
    BY <1>0, <1>12 DEF WriteCi, Goto
<1>13. CASE PollCi
    BY <1>0, <1>13 DEF PollCi
<1>14. CASE PollIs
  <2>1. CASE Return(1)
    BY <1>14, <2>1, ReturnTypes DEF PollIs
  <2>2. CASE spin' = spin + 1 /\ spin + 1 <= MAXSPIN
    BY <1>14, <2>2 DEF PollIs, Return
  <2> QED
    BY <1>14, <2>1, <2>2 DEF PollIs
<1>15. CASE LastTfd
    BY <1>0, ReturnTypes, <1>15 DEF LastTfd, Return
<1>16. ASSUME NEW op \in {"read", "write"}, NEW x \in Sector, NEW b \in Buf,
               NEW n \in PRDT, Enter(op, x, b, n)
        PROVE  Types'
  <2>1. ncalls' \in Id /\ ncalls' \in 0..MAXCALLS /\ n \in Nat
    BY <1>16 DEF Enter
  <2>2. /\ call' \in [id : Id, op : {"read", "write"}, sector : Sector, buf : Buf,
                      n : Nat, slot : Slot \cup {None}]
        /\ call'.id = ncalls' /\ call'.slot = None
    BY <1>16, <2>1 DEF Enter
  <2>3. result' \in [Id -> {0, 1, None}] /\ err' \in BOOLEAN /\ pc' \in {"idle", "find"}
    BY <1>16, <2>1 DEF Enter
  <2> QED
    BY <1>16, <2>1, <2>2, <2>3 DEF Enter
<1>17. ASSUME NEW b \in Buf, NEW d \in Data, CallerFills(b, d) PROVE Types'
    BY <1>0, <1>17 DEF CallerFills
<1>18. CASE HbaEngine
    BY <1>0, <1>18 DEF HbaEngine
<1>19. ASSUME NEW s \in Slot, HbaFetch(s) PROVE Types'
    BY <1>0, <1>19 DEF HbaFetch
<1>20. CASE HbaTransfer
  <2>1. cur.cmd \in Cmd
    BY <1>20 DEF HbaTransfer, CallCmd
  <2>2. cur.cmd.id \in Id /\ cur.cmd.sector \in Sector /\ cur.cmd.buf \in Buf
    BY <2>1 DEF Cmd
  <2>3. runs' \in [Id -> 0..2]
    BY <1>20, <2>2 DEF HbaTransfer
  <2>4. mem' \in [Buf -> Data] /\ disk' \in [Sector -> Data]
    BY <1>20, <2>2, ZenonT(60) DEF HbaTransfer
  <2>5. cur' \in [slot : Slot, cmd : Cmd \cup {Zeroed}, done : BOOLEAN]
    BY <1>20 DEF HbaTransfer, CallCmd
  <2> QED
    BY <1>20, <2>3, <2>4, <2>5 DEF HbaTransfer
<1>21. CASE HbaComplete
    BY <1>0, <1>21 DEF HbaComplete
<1>22. CASE HbaError
    BY <1>0, <1>22 DEF HbaError
<1>23. CASE UNCHANGED vars
    BY <1>23 DEF vars
<1> QED
    BY ONLY [Next]_vars, <1>1, <1>2, <1>3, <1>4, <1>5, <1>6, <1>7, <1>8,
       <1>9, <1>10, <1>11, <1>12, <1>13, <1>14, <1>15, <1>16, <1>17,
       <1>18, <1>19, <1>20, <1>21, <1>22, <1>23 DEF Next, DriverStep,
       Caller, HbaStep

(* Every step keeps what port_rebase relies on. *)
LEMMA BringUpStep ==
    ASSUME Inv, [Next]_vars
    PROVE  BringUp'
<1> USE AhciAssumption DEF port, hba, ghost, Inv, Types, TypeOK, Slot, Id,
      Bringup, Unissued, Placed, Calling, Issued, BringUp, Hands
<1>1. CASE StopSt
    BY <1>1 DEF StopSt, Goto
<1>2. CASE StopFre
    BY <1>2 DEF StopFre, Goto
<1>3. CASE StopWait
    BY <1>3 DEF StopWait, Goto
<1>4. CASE Rebase
    BY <1>4 DEF Rebase, Goto
<1>5. CASE StartWait
    BY <1>5 DEF StartWait, Goto
<1>6. CASE StartFre
    BY <1>6 DEF StartFre, Goto
<1>7. CASE StartSt
    BY <1>7 DEF StartSt, Goto
<1>8. CASE NoSlot
    BY <1>8 DEF NoSlot, Return
<1>9. ASSUME NEW s \in Slot, FindBuild(s) PROVE BringUp'
    BY <1>9 DEF FindBuild, FreeSlot, Return, Built
<1>10. CASE WaitIdle
    BY <1>10 DEF WaitIdle, Return
<1>11. CASE ReadCi
    BY <1>11 DEF ReadCi, Goto
<1>12. CASE WriteCi
    BY <1>12 DEF WriteCi, Goto
<1>13. CASE PollCi
    BY <1>13 DEF PollCi
<1>14. CASE PollIs
    BY <1>14 DEF PollIs, Return
<1>15. CASE LastTfd
    BY <1>15 DEF LastTfd, Return
<1>16. ASSUME NEW op \in {"read", "write"}, NEW x \in Sector, NEW b \in Buf,
               NEW n \in PRDT, Enter(op, x, b, n)
        PROVE  BringUp'
    BY <1>16 DEF Enter
<1>17. ASSUME NEW b \in Buf, NEW d \in Data, CallerFills(b, d) PROVE BringUp'
    BY <1>17 DEF CallerFills
<1>18. CASE HbaEngine
    BY <1>18 DEF HbaEngine
<1>19. ASSUME NEW s \in Slot, HbaFetch(s) PROVE BringUp'
    BY <1>19 DEF HbaFetch, CallCmd
<1>20. CASE HbaTransfer
    BY <1>20 DEF HbaTransfer, CallCmd
<1>21. CASE HbaComplete
    BY <1>21 DEF HbaComplete
<1>22. CASE HbaError
    BY <1>22 DEF HbaError
<1>23. CASE UNCHANGED vars
    BY <1>23 DEF vars
<1> QED
    BY ONLY [Next]_vars, <1>1, <1>2, <1>3, <1>4, <1>5, <1>6, <1>7, <1>8,
       <1>9, <1>10, <1>11, <1>12, <1>13, <1>14, <1>15, <1>16, <1>17,
       <1>18, <1>19, <1>20, <1>21, <1>22, <1>23 DEF Next, DriverStep,
       Caller, HbaStep

(* Every step keeps the slots' ownership. *)
LEMMA HandsStep ==
    ASSUME Inv, [Next]_vars
    PROVE  Hands'
<1> USE AhciAssumption DEF port, hba, ghost, Inv, Types, TypeOK, Slot, Id,
      Bringup, Unissued, Placed, Calling, Issued, BringUp, Hands
<1>1. CASE StopSt
    BY <1>1 DEF StopSt, Goto
<1>2. CASE StopFre
    BY <1>2 DEF StopFre, Goto
<1>3. CASE StopWait
    BY <1>3 DEF StopWait, Goto
<1>4. CASE Rebase
    BY <1>4 DEF Rebase, Goto
<1>5. CASE StartWait
    BY <1>5 DEF StartWait, Goto
<1>6. CASE StartFre
    BY <1>6 DEF StartFre, Goto
<1>7. CASE StartSt
    BY <1>7 DEF StartSt, Goto
<1>8. CASE NoSlot
    BY <1>8 DEF NoSlot, Return
<1>9. ASSUME NEW s \in Slot, FindBuild(s) PROVE Hands'
    BY <1>9 DEF FindBuild, FreeSlot, Return, Built
<1>10. CASE WaitIdle
    BY <1>10 DEF WaitIdle, Return
<1>11. CASE ReadCi
    BY <1>11 DEF ReadCi, Goto
<1>12. CASE WriteCi
    BY <1>12 DEF WriteCi, Goto
<1>13. CASE PollCi
    BY <1>13 DEF PollCi
<1>14. CASE PollIs
    BY <1>14 DEF PollIs, Return
<1>15. CASE LastTfd
    BY <1>15 DEF LastTfd, Return
<1>16. ASSUME NEW op \in {"read", "write"}, NEW x \in Sector, NEW b \in Buf,
               NEW n \in PRDT, Enter(op, x, b, n)
        PROVE  Hands'
    BY <1>16 DEF Enter
<1>17. ASSUME NEW b \in Buf, NEW d \in Data, CallerFills(b, d) PROVE Hands'
    BY <1>17 DEF CallerFills
<1>18. CASE HbaEngine
    BY <1>18 DEF HbaEngine
<1>19. ASSUME NEW s \in Slot, HbaFetch(s) PROVE Hands'
    BY <1>19 DEF HbaFetch, CallCmd
<1>20. CASE HbaTransfer
    BY <1>20 DEF HbaTransfer, CallCmd
<1>21. CASE HbaComplete
    BY <1>21 DEF HbaComplete
<1>22. CASE HbaError
    BY <1>22 DEF HbaError
<1>23. CASE UNCHANGED vars
    BY <1>23 DEF vars
<1> QED
    BY ONLY [Next]_vars, <1>1, <1>2, <1>3, <1>4, <1>5, <1>6, <1>7, <1>8,
       <1>9, <1>10, <1>11, <1>12, <1>13, <1>14, <1>15, <1>16, <1>17,
       <1>18, <1>19, <1>20, <1>21, <1>22, <1>23 DEF Next, DriverStep,
       Caller, HbaStep

(* Every step keeps the contents of the tables. *)
LEMMA TablesStep ==
    ASSUME Inv, [Next]_vars
    PROVE  Tables'
<1> USE AhciAssumption DEF port, hba, ghost, Inv, Types, TypeOK, Slot, Id,
      Bringup, Unissued, Placed, Calling, Issued, BringUp, Hands, Tables
<1>1. CASE StopSt
    BY <1>1 DEF StopSt, Goto, CallCmd
<1>2. CASE StopFre
    BY <1>2 DEF StopFre, Goto, CallCmd
<1>3. CASE StopWait
    BY <1>3 DEF StopWait, Goto, CallCmd
<1>4. CASE Rebase
    BY <1>4 DEF Rebase, Goto, CallCmd, Zeroed
<1>5. CASE StartWait
    BY <1>5 DEF StartWait, Goto, CallCmd
<1>6. CASE StartFre
    BY <1>6 DEF StartFre, Goto, CallCmd
<1>7. CASE StartSt
    BY <1>7 DEF StartSt, Goto, CallCmd
<1>8. CASE NoSlot
    BY <1>8 DEF NoSlot, Return, CallCmd
<1>9. ASSUME NEW s \in Slot, FindBuild(s) PROVE Tables'
  <2>1. CASE Return(1) /\ UNCHANGED table
    BY <1>9, <2>1 DEF FindBuild, Return
  <2>2. CASE pc' = "tfd"
    <3>1. call' = [call EXCEPT !.slot = s] /\ table' = Built(s, call.n, CallCmd) /\ ncalls' = ncalls
      BY <1>9, <2>2 DEF FindBuild, Return, CallCmd
    <3>2. call'.slot = s /\ call'.id = call.id /\ CallCmd' = CallCmd /\ CallCmd.id = call.id
      BY <1>9, <3>1 DEF CallCmd, FindBuild
    <3>3. \A r \in Slot : table'[r] \in {table[r], Zeroed} \/ (r = s /\ table'[r] = CallCmd)
      BY <3>1 DEF Built
    <3>4. table'[s] = CallCmd
      BY <3>1 DEF Built
    <3>5. Zeroed.id = 0 /\ call.id > 0 /\ call.id = ncalls /\ \A r \in Slot : table[r].id # call.id
      BY <1>9 DEF Zeroed, FindBuild
    <3>6. ASSUME NEW r \in Slot, r # s PROVE table'[r].id # call.id
      <4>1. table'[r] \in {table[r], Zeroed}
        BY <3>3, <3>6
      <4> QED
        BY <3>5, <4>1
    <3>7. \A r \in Slot : table'[r].id <= ncalls
      <4> TAKE r \in Slot
      <4>1. CASE table'[r] \in {table[r], Zeroed}
        BY <3>5, <4>1
      <4>2. CASE table'[r] = CallCmd
        BY <3>2, <3>5, <4>2
      <4> QED
        BY <3>3, <4>1, <4>2
    <3>8. cur' = cur /\ (cur # None => cur.cmd.id # call.id)
      BY <1>9 DEF FindBuild
    <3> QED
      BY <2>2, <3>1, <3>2, <3>4, <3>6, <3>7, <3>8
  <2> QED
    BY <1>9, <2>1, <2>2 DEF FindBuild
<1>10. CASE WaitIdle
    BY <1>10 DEF WaitIdle, Return, CallCmd
<1>11. CASE ReadCi
    BY <1>11 DEF ReadCi, Goto, CallCmd
<1>12. CASE WriteCi
    BY <1>12 DEF WriteCi, Goto, CallCmd
<1>13. CASE PollCi
    BY <1>13 DEF PollCi, CallCmd
<1>14. CASE PollIs
    BY <1>14 DEF PollIs, Return, CallCmd
<1>15. CASE LastTfd
    BY <1>15 DEF LastTfd, Return, CallCmd
<1>16. ASSUME NEW op \in {"read", "write"}, NEW x \in Sector, NEW b \in Buf,
               NEW n \in PRDT, Enter(op, x, b, n)
        PROVE  Tables'
  <2>1. \A s \in Slot : table[s].id \in Nat
    BY DEF Cmd, Zeroed
  <2>2. cur # None => cur.cmd.id \in Nat
    BY DEF Cmd, Zeroed
  <2>3. call'.id = ncalls + 1 /\ ncalls' = ncalls + 1 /\ pc' \in {"idle", "find"} /\ UNCHANGED <<table, cur>>
    BY <1>16 DEF Enter
  <2> QED
    BY <2>1, <2>2, <2>3
<1>17. ASSUME NEW b \in Buf, NEW d \in Data, CallerFills(b, d) PROVE Tables'
    BY <1>17 DEF CallerFills, CallCmd
<1>18. CASE HbaEngine
    BY <1>18 DEF HbaEngine, CallCmd
<1>19. ASSUME NEW s \in Slot, HbaFetch(s) PROVE Tables'
    BY <1>19 DEF HbaFetch, CallCmd
<1>20. CASE HbaTransfer
    BY <1>20 DEF HbaTransfer, CallCmd
<1>21. CASE HbaComplete
    BY <1>21 DEF HbaComplete, CallCmd
<1>22. CASE HbaError
    BY <1>22 DEF HbaError, CallCmd
<1>23. CASE UNCHANGED vars
    BY <1>23 DEF vars, CallCmd
<1> QED
    BY ONLY [Next]_vars, <1>1, <1>2, <1>3, <1>4, <1>5, <1>6, <1>7, <1>8,
       <1>9, <1>10, <1>11, <1>12, <1>13, <1>14, <1>15, <1>16, <1>17,
       <1>18, <1>19, <1>20, <1>21, <1>22, <1>23 DEF Next, DriverStep,
       Caller, HbaStep

(* Every step keeps the count of executions of the call in progress. *)
LEMMA RunsStep ==
    ASSUME Inv, [Next]_vars
    PROVE  Runs'
<1> USE AhciAssumption DEF port, hba, ghost, Inv, Types, TypeOK, Slot, Id,
      Bringup, Unissued, Placed, Calling, Issued, BringUp, Hands, Tables, Runs
<1>1. CASE StopSt
    BY <1>1 DEF StopSt, Goto
<1>2. CASE StopFre
    BY <1>2 DEF StopFre, Goto
<1>3. CASE StopWait
    BY <1>3 DEF StopWait, Goto
<1>4. CASE Rebase
    BY <1>4 DEF Rebase, Goto
<1>5. CASE StartWait
    BY <1>5 DEF StartWait, Goto
<1>6. CASE StartFre
    BY <1>6 DEF StartFre, Goto
<1>7. CASE StartSt
    BY <1>7 DEF StartSt, Goto
<1>8. CASE NoSlot
    BY <1>8 DEF NoSlot, Return
<1>9. ASSUME NEW s \in Slot, FindBuild(s) PROVE Runs'
    BY <1>9 DEF FindBuild, FreeSlot, Return, Built
<1>10. CASE WaitIdle
    BY <1>10 DEF WaitIdle, Return
<1>11. CASE ReadCi
    BY <1>11 DEF ReadCi, Goto
<1>12. CASE WriteCi
    BY <1>12 DEF WriteCi, Goto
<1>13. CASE PollCi
    BY <1>13 DEF PollCi
<1>14. CASE PollIs
    BY <1>14 DEF PollIs, Return
<1>15. CASE LastTfd
    BY <1>15 DEF LastTfd, Return
<1>16. ASSUME NEW op \in {"read", "write"}, NEW x \in Sector, NEW b \in Buf,
               NEW n \in PRDT, Enter(op, x, b, n)
        PROVE  Runs'
    BY <1>16 DEF Enter
<1>17. ASSUME NEW b \in Buf, NEW d \in Data, CallerFills(b, d) PROVE Runs'
    BY <1>17 DEF CallerFills
<1>18. CASE HbaEngine
    BY <1>18 DEF HbaEngine
<1>19. ASSUME NEW s \in Slot, HbaFetch(s) PROVE Runs'
    BY <1>19 DEF HbaFetch, CallCmd
<1>20. CASE HbaTransfer
  <2>1. cur.cmd \in Cmd /\ cur.cmd.id \in Id /\ cur.cmd.id <= ncalls
    BY <1>20 DEF HbaTransfer, Cmd
  <2>2. \A i \in Id : i # cur.cmd.id => runs'[i] = runs[i]
    BY <1>20 DEF HbaTransfer, CallCmd
  <2>3. cur' # None /\ cur'.slot = cur.slot /\ cur'.done
    BY <1>20, ZenonT(60) DEF HbaTransfer, CallCmd
  <2>4. \A i \in Id : i > ncalls' => runs'[i] = 0 /\ result'[i] = None
    BY <1>20, <2>1, <2>2 DEF HbaTransfer
  <2>5. CASE cur.cmd.id = call.id /\ pc \in Calling
    <3>1. pc \in Issued /\ cur.slot = call.slot /\ call.slot \in ci /\ ~halted
      BY <1>20, <2>5 DEF HbaTransfer
    <3>2. runs[call.id] = 0 /\ runs'[call.id] = 1
      BY <1>20, <2>5, <3>1 DEF HbaTransfer
    <3> QED
      BY <1>20, <2>3, <2>4, <3>1, <3>2 DEF HbaTransfer
  <2>6. CASE ~(cur.cmd.id = call.id /\ pc \in Calling)
    BY <1>20, <2>1, <2>2, <2>3, <2>4, <2>6 DEF HbaTransfer, CallCmd
  <2> QED
    BY <2>5, <2>6
<1>21. CASE HbaComplete
    BY <1>21 DEF HbaComplete
<1>22. CASE HbaError
    BY <1>22 DEF HbaError
<1>23. CASE UNCHANGED vars
    BY <1>23 DEF vars
<1> QED
    BY ONLY [Next]_vars, <1>1, <1>2, <1>3, <1>4, <1>5, <1>6, <1>7, <1>8,
       <1>9, <1>10, <1>11, <1>12, <1>13, <1>14, <1>15, <1>16, <1>17,
       <1>18, <1>19, <1>20, <1>21, <1>22, <1>23 DEF Next, DriverStep,
       Caller, HbaStep

(* Every step keeps the commands of successful calls out of the HBA's reach. *)
LEMMA SpentStep ==
    ASSUME Inv, [Next]_vars
    PROVE  Spent'
<1> USE AhciAssumption DEF port, hba, ghost, Inv, Types, TypeOK, Slot, Id,
      Bringup, Unissued, Placed, Calling, Issued, BringUp, Hands, Tables,
      Runs, Spent
<1>1. CASE StopSt
    BY <1>1 DEF StopSt, Goto
<1>2. CASE StopFre
    BY <1>2 DEF StopFre, Goto
<1>3. CASE StopWait
    BY <1>3 DEF StopWait, Goto
<1>4. CASE Rebase
    BY <1>4 DEF Rebase, Goto
<1>5. CASE StartWait
    BY <1>5 DEF StartWait, Goto
<1>6. CASE StartFre
    BY <1>6 DEF StartFre, Goto
<1>7. CASE StartSt
    BY <1>7 DEF StartSt, Goto
<1>8. CASE NoSlot
    BY <1>8 DEF NoSlot, Return
<1>9. ASSUME NEW s \in Slot, FindBuild(s) PROVE Spent'
  <2>1. CASE Return(1) /\ UNCHANGED table
    BY <1>9, <2>1 DEF FindBuild, Return
  <2>2. CASE pc' = "tfd"
    <3>1. table' = Built(s, call.n, CallCmd) /\ UNCHANGED <<result, runs, ci, cur>>
      BY <1>9, <2>2 DEF FindBuild, Return, CallCmd
    <3>2. \A i \in Id : result[i] = 0 => i # call.id
      BY <1>9 DEF FindBuild
    <3>3. \A r \in Slot, i \in Id : table'[r].id = i => table[r].id = i \/ i = call.id
      BY <3>1 DEF Built, Zeroed, CallCmd
    <3> QED
      BY <2>2, <3>1, <3>2, <3>3
  <2> QED
    BY <1>9, <2>1, <2>2 DEF FindBuild
<1>10. CASE WaitIdle
    BY <1>10 DEF WaitIdle, Return
<1>11. CASE ReadCi
    BY <1>11 DEF ReadCi, Goto
<1>12. CASE WriteCi
  <2>1. \A i \in Id : result[i] = 0 => i # call.id
    BY <1>12 DEF WriteCi, Goto
  <2>2. table[call.slot].id = call.id
    BY <1>12 DEF WriteCi, Goto, CallCmd
  <2>3. \A i \in Id, r \in Slot : result[i] = 0 /\ table[r].id = i => r \notin ci'
    BY <1>12, <2>1, <2>2 DEF WriteCi, Goto
  <2> QED
    BY <1>12, <2>3 DEF WriteCi, Goto
<1>13. CASE PollCi
    BY <1>13 DEF PollCi
<1>14. CASE PollIs
    BY <1>14 DEF PollIs, Return
<1>15. CASE LastTfd
    BY <1>15 DEF LastTfd, Return
<1>16. ASSUME NEW op \in {"read", "write"}, NEW x \in Sector, NEW b \in Buf,
               NEW n \in PRDT, Enter(op, x, b, n)
        PROVE  Spent'
    BY <1>16 DEF Enter
<1>17. ASSUME NEW b \in Buf, NEW d \in Data, CallerFills(b, d) PROVE Spent'
    BY <1>17 DEF CallerFills
<1>18. CASE HbaEngine
    BY <1>18 DEF HbaEngine
<1>19. ASSUME NEW s \in Slot, HbaFetch(s) PROVE Spent'
    BY <1>19 DEF HbaFetch, CallCmd
<1>20. CASE HbaTransfer
    BY <1>20 DEF HbaTransfer, CallCmd
<1>21. CASE HbaComplete
    BY <1>21 DEF HbaComplete
<1>22. CASE HbaError
    BY <1>22 DEF HbaError
<1>23. CASE UNCHANGED vars
    BY <1>23 DEF vars
<1> QED
    BY ONLY [Next]_vars, <1>1, <1>2, <1>3, <1>4, <1>5, <1>6, <1>7, <1>8,
       <1>9, <1>10, <1>11, <1>12, <1>13, <1>14, <1>15, <1>16, <1>17,
       <1>18, <1>19, <1>20, <1>21, <1>22, <1>23 DEF Next, DriverStep,
       Caller, HbaStep

(* Every step keeps the HBA to the call in progress, until one is abandoned. *)
LEMMA AbandonedStep ==
    ASSUME Inv, [Next]_vars
    PROVE  Abandoned'
<1> USE AhciAssumption DEF port, hba, ghost, Inv, Types, TypeOK, Slot, Id,
      Bringup, Unissued, Placed, Calling, Issued, BringUp, Hands, Tables,
      Abandoned
<1>1. CASE StopSt
    BY <1>1 DEF StopSt, Goto
<1>2. CASE StopFre
    BY <1>2 DEF StopFre, Goto
<1>3. CASE StopWait
    BY <1>3 DEF StopWait, Goto
<1>4. CASE Rebase
    BY <1>4 DEF Rebase, Goto
<1>5. CASE StartWait
    BY <1>5 DEF StartWait, Goto
<1>6. CASE StartFre
    BY <1>6 DEF StartFre, Goto
<1>7. CASE StartSt
    BY <1>7 DEF StartSt, Goto
<1>8. CASE NoSlot
    BY <1>8 DEF NoSlot, Return
<1>9. ASSUME NEW s \in Slot, FindBuild(s) PROVE Abandoned'
    BY <1>9 DEF FindBuild, FreeSlot, Return, Built
<1>10. CASE WaitIdle
    BY <1>10 DEF WaitIdle, Return
<1>11. CASE ReadCi
    BY <1>11 DEF ReadCi, Goto
<1>12. CASE WriteCi
    BY <1>12 DEF WriteCi, Goto
<1>13. CASE PollCi
    BY <1>13 DEF PollCi
<1>14. CASE PollIs
    BY <1>14 DEF PollIs, Return
<1>15. CASE LastTfd
    BY <1>15 DEF LastTfd, Return
<1>16. ASSUME NEW op \in {"read", "write"}, NEW x \in Sector, NEW b \in Buf,
               NEW n \in PRDT, Enter(op, x, b, n)
        PROVE  Abandoned'
    BY <1>16 DEF Enter
<1>17. ASSUME NEW b \in Buf, NEW d \in Data, CallerFills(b, d) PROVE Abandoned'
    BY <1>17 DEF CallerFills
<1>18. CASE HbaEngine
    BY <1>18 DEF HbaEngine
<1>19. ASSUME NEW s \in Slot, HbaFetch(s) PROVE Abandoned'
    BY <1>19 DEF HbaFetch, CallCmd
<1>20. CASE HbaTransfer
    BY <1>20 DEF HbaTransfer, CallCmd
<1>21. CASE HbaComplete
    BY <1>21 DEF HbaComplete
<1>22. CASE HbaError
    BY <1>22 DEF HbaError
<1>23. CASE UNCHANGED vars
    BY <1>23 DEF vars
<1> QED
    BY ONLY [Next]_vars, <1>1, <1>2, <1>3, <1>4, <1>5, <1>6, <1>7, <1>8,
       <1>9, <1>10, <1>11, <1>12, <1>13, <1>14, <1>15, <1>16, <1>17,
       <1>18, <1>19, <1>20, <1>21, <1>22, <1>23 DEF Next, DriverStep,
       Caller, HbaStep

(* Every step keeps the disk as the last successful writes left it. *)
LEMMA DurableStep ==
    ASSUME Inv, [Next]_vars
    PROVE  DiskDurable'
<1> USE AhciAssumption DEF port, hba, ghost, Inv, Types, TypeOK, Slot, Id,
      Bringup, Unissued, Placed, Calling, Issued, BringUp, Hands, Tables,
      Abandoned, DiskDurable
<1>1. CASE StopSt
    BY <1>1 DEF StopSt, Goto
<1>2. CASE StopFre
    BY <1>2 DEF StopFre, Goto
<1>3. CASE StopWait
    BY <1>3 DEF StopWait, Goto
<1>4. CASE Rebase
    BY <1>4 DEF Rebase, Goto
<1>5. CASE StartWait
    BY <1>5 DEF StartWait, Goto
<1>6. CASE StartFre
    BY <1>6 DEF StartFre, Goto
<1>7. CASE StartSt
    BY <1>7 DEF StartSt, Goto
<1>8. CASE NoSlot
    BY <1>8 DEF NoSlot, Return
<1>9. ASSUME NEW s \in Slot, FindBuild(s) PROVE DiskDurable'
    BY <1>9 DEF FindBuild, FreeSlot, Return, Built
<1>10. CASE WaitIdle
    BY <1>10 DEF WaitIdle, Return
<1>11. CASE ReadCi
    BY <1>11 DEF ReadCi, Goto
<1>12. CASE WriteCi
    BY <1>12 DEF WriteCi, Goto
<1>13. CASE PollCi
    BY <1>13 DEF PollCi
<1>14. CASE PollIs
    BY <1>14 DEF PollIs, Return
<1>15. CASE LastTfd
    BY <1>15 DEF LastTfd, Return
<1>16. ASSUME NEW op \in {"read", "write"}, NEW x \in Sector, NEW b \in Buf,
               NEW n \in PRDT, Enter(op, x, b, n)
        PROVE  DiskDurable'
    BY <1>16 DEF Enter
<1>17. ASSUME NEW b \in Buf, NEW d \in Data, CallerFills(b, d) PROVE DiskDurable'
    BY <1>17 DEF CallerFills
<1>18. CASE HbaEngine
    BY <1>18 DEF HbaEngine
<1>19. ASSUME NEW s \in Slot, HbaFetch(s) PROVE DiskDurable'
    BY <1>19 DEF HbaFetch, CallCmd
<1>20. CASE HbaTransfer
    BY <1>20 DEF HbaTransfer, CallCmd
<1>21. CASE HbaComplete
    BY <1>21 DEF HbaComplete
<1>22. CASE HbaError
    BY <1>22 DEF HbaError
<1>23. CASE UNCHANGED vars
    BY <1>23 DEF vars
<1> QED
    BY ONLY [Next]_vars, <1>1, <1>2, <1>3, <1>4, <1>5, <1>6, <1>7, <1>8,
       <1>9, <1>10, <1>11, <1>12, <1>13, <1>14, <1>15, <1>16, <1>17,
       <1>18, <1>19, <1>20, <1>21, <1>22, <1>23 DEF Next, DriverStep,
       Caller, HbaStep

-----------------------------------------------------------------------------
(* The port as the firmware leaves it satisfies the invariant. *)
LEMMA InitInv ==
    Init => Inv
<1> SUFFICES ASSUME Init PROVE Inv
    OBVIOUS
<1> USE AhciAssumption DEF Init, Bringup, Unissued, Placed, Calling, Issued
<1>1. Types
  <2>1. table \in [Slot -> Cmd \cup {Zeroed}] /\ ci \subseteq Slot /\ snap \subseteq Slot
      OBVIOUS
  <2>2. runs \in [Id -> 0..2] /\ result \in [Id -> {0, 1, None}] /\ shadow \in [Sector -> Data \cup {None}]
      OBVIOUS
  <2>3. {st, fre, cr, fr, err, bsy, halted, lost} \subseteq BOOLEAN
      OBVIOUS
  <2>4. spin \in 0..MAXSPIN /\ ncalls \in 0..MAXCALLS /\ pc = "stop_st" /\ cur = None
      OBVIOUS
  <2>5. mem \in [Buf -> Data] /\ disk \in [Sector -> Data]
      OBVIOUS
  <2> QED
      BY ONLY <2>1, <2>2, <2>3, <2>4, <2>5
         DEF Types, TypeOK, Pc, Unissued, Placed, Calling, Issued
<1>2. BringUp /\ Hands
    BY DEF BringUp, Hands
<1>3. Tables /\ Runs
    BY DEF Tables, Runs, Zeroed, Id
<1>4. Spent /\ Abandoned /\ DiskDurable
    BY DEF Spent, Abandoned, DiskDurable
<1> QED
    BY <1>1, <1>2, <1>3, <1>4 DEF Inv

(* The invariant holds in every state of the driver and the HBA. *)
THEOREM InvariantHolds ==
    Spec => []Inv
<1>1. Init => Inv
    BY InitInv
<1>2. Inv /\ [Next]_vars => Inv'
    BY TypesStep, BringUpStep, HandsStep, TablesStep, RunsStep, SpentStep, AbandonedStep,
       DurableStep DEF Inv
<1> QED
    BY <1>1, <1>2, PTL DEF Spec

(* ahci_read and ahci_write return 0 only for a command the HBA executed,  *)
(* and it executes it exactly once, then and for ever: whatever the HBA    *)
(* completes late, whatever calls were abandoned before or after, and      *)
(* although ci |= 1 << slot writes back bits that may be stale.            *)
THEOREM SuccessfulCallsRanOnce ==
    Spec => []SuccessRanOnce
<1>1. Inv => SuccessRanOnce
    BY DEF Inv, Spent, SuccessRanOnce
<1> QED
    BY <1>1, InvariantHolds, PTL

(* port_rebase replaces the lists of a stopped HBA only; as long as no     *)
(* call was abandoned, the HBA works for the call in progress only, and    *)
(* the disk holds what the last successful write of each sector stored.    *)
THEOREM DriverAndHbaApart ==
    Spec => []HbaApart
<1>1. Inv => RebaseWhileStopped
    BY DEF Inv, BringUp, RebaseWhileStopped, Bringup
<1>2. Inv => OnlyCurrentRuns
  <2> SUFFICES ASSUME Inv, ~lost, cur # None
               PROVE  pc \in Issued /\ cur.cmd # Zeroed /\ cur.cmd.id = call.id
      BY DEF OnlyCurrentRuns
  <2>1. pc \in Issued /\ cur.slot = call.slot
      BY DEF Inv, Hands, Abandoned
  <2>2. cur.cmd = CallCmd /\ call.id \in Id
      BY <2>1 DEF Inv, Types, Tables, Calling, Placed
  <2> QED
      BY <2>1, <2>2, AhciAssumption DEF CallCmd, Zeroed, Id
<1>3. Inv => HbaApart
    BY <1>1, <1>2 DEF Inv, HbaApart
<1> QED
    BY <1>3, InvariantHolds, PTL

(* The table of a slot in PxCI is rewritten only after a call was          *)
(* abandoned, by a command of several entries; and until then a read that  *)
(* returns 0 leaves what the last successful write put on the sector.      *)
THEOREM TransfersAreExact ==
    Spec => TransfersExact
<1>1. ASSUME Inv, [Next]_vars
      PROVE  \A s \in ci : table'[s] # table[s] => lost /\ call.n > 1
  <2> SUFFICES ASSUME NEW s \in ci, table'[s] # table[s] PROVE lost /\ call.n > 1
      OBVIOUS
  <2>1. s \in Slot
      BY <1>1 DEF Inv, Types, TypeOK
  <2>2. ~Rebase
      BY <1>1 DEF Inv, BringUp, Bringup, Rebase, Goto
  <2>3. PICK r \in Slot : FindBuild(r)
      BY <1>1, <2>2 DEF Next, DriverStep, Caller, HbaStep, vars, StopSt, StopFre, StopWait, StartWait,
         StartFre, StartSt, NoSlot, WaitIdle, ReadCi, WriteCi, PollCi, PollIs, LastTfd, Enter,
         CallerFills, HbaEngine, HbaFetch, HbaTransfer, HbaComplete, HbaError
  <2>4. s = r + 1 /\ call.n > 1
      BY <2>1, <2>3 DEF FindBuild, FreeSlot, Built
  <2>5. lost
      BY <1>1, <2>3 DEF Inv, Abandoned, FindBuild, Issued
  <2> QED
      BY <2>4, <2>5
<1>2. ASSUME Inv, pc = "last_tfd", call.op = "read", ~lost
      PROVE  shadow[call.sector] \in {None, mem[call.buf]}
  <2>1. mem[call.buf] = disk[call.sector] /\ call.sector \in Sector
      BY <1>2 DEF Inv, Types, Hands, Abandoned, Issued, Calling, Placed
  <2> QED
      BY <1>2, <2>1 DEF Inv, DiskDurable
<1>3. Spec => TablesStable
    BY <1>1, InvariantHolds, PTL DEF Spec, TablesStable
<1>4. Spec => ReadsLastWrite
    BY <1>2, InvariantHolds, PTL DEF Spec, ReadsLastWrite
<1> QED
    BY <1>3, <1>4 DEF TransfersExact
=============================================================================
