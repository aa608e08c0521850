------------------------------ MODULE MCPaging ------------------------------
(* Three levels of two entries: pages 0..3 are the lower half, 4..7 the    *)
(* kernel half.  Ranges of two pages from page 1 cross a level-1 table.    *)
EXTENDS Paging

MCPage == {1, 4}
MCFrame == 101..107
=============================================================================
