-------------------------- MODULE MCFrameAllocator --------------------------
(* Four frames of RAM in two usable entries around a reserved one.          *)
EXTENDS FrameAllocator

MCFrame == {1, 2, 4, 5}
MCMemMap == << [base |-> 1, length |-> 2, usable |-> TRUE],
               [base |-> 3, length |-> 1, usable |-> FALSE],
               [base |-> 4, length |-> 2, usable |-> TRUE] >>
=============================================================================
