------------------------------- MODULE MCHeap -------------------------------
(* In units of 8 bytes, with pages of 12 units: the header (3), the        *)
(* alignment (2) and the odd payload of a page (9) keep their relations.   *)
(* Of the sizes asked for, 2 leaves a rest worth splitting off (4, which   *)
(* has none), 8 is the largest that fits a page and leaves no block, 9     *)
(* rounds beyond a page, and 63 wraps to 0.                                *)
EXTENDS Heap

MCSIZES == {0, 2, 8, 9, 63}
=============================================================================
