------------------------------ MODULE MCMemory ------------------------------
(***************************************************************************)
(* An instance of Memory for TLC.  The heap is the second quarter of the   *)
(* address space but for its last page: 7 pages, and 5 frames for them.    *)
(* That makes up to three blocks, regions to split and to reuse, and       *)
(* requests that fail for want of frames and for want of a region.  Some   *)
(* frames have the number of a heap page, for the invlpg of unmap_page.    *)
(***************************************************************************)
EXTENDS Memory

MCQuarter  == 8
MCUsable   == {3, 9, 10, 12, 20}
MCRequests == {2, 3}

(* Page tables that start clear, and page tables full of what the memory   *)
(* held: here present entries that point at the page's own number.         *)
MCBootTables ==
  {[p \in Pages |-> [present |-> FALSE, address |-> 0]],
   [p \in Pages |-> [present |-> TRUE, address |-> p]]}
=============================================================================
