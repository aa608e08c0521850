-------------------------------- MODULE MCVm --------------------------------
(* Two spaces of two heap pages and one more page, which share one table   *)
(* each.  Of the eight frames the spaces take four and leave four for      *)
(* tables, pages and records, or six while there is one space.             *)
EXTENDS Vm

MCFREE == [k \in 1..8 |-> 8 + 2 * k]
MCDev == {100}
=============================================================================
