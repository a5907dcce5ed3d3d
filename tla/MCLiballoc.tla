----------------------------- MODULE MCLiballoc -----------------------------
(***************************************************************************)
(* Instances of Liballoc for TLC.  Headers take 3 bytes, so that pointers  *)
(* need both offsets of an alignment by 2.                                 *)
(*                                                                         *)
(* MCLiballoc: two pages of 27 bytes.  Blocks take 8, 13 or 33 bytes: up   *)
(* to three in a major of one page, with gaps in front, between and        *)
(* behind, and the large one in a major of two pages.                      *)
(*                                                                         *)
(* MCLiballocMajors: up to three majors of one page of 26 bytes, with room *)
(* for two blocks, or one and two gaps that are only together as large as  *)
(* the larger block.                                                       *)
(***************************************************************************)
EXTENDS Liballoc

(* What the theorems of LiballocProofs suppose of the requests.            *)
ASSUME RequestsDoNotWrap == SizesFit

MCHeap      == 1 .. 2
MCSizes     == {1, 6, 26}
MCManyPages == 1 .. 3
MCFewSizes  == {1, 6}
=============================================================================
