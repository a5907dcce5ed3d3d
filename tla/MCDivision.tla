----------------------------- MODULE MCDivision -----------------------------
(* Words of five bits: every pair of them, divided by each function.       *)
EXTENDS Division
=============================================================================
