------------------------------- MODULE MCTasks -------------------------------
(* Three tasks, with two values in their registers.                        *)
EXTENDS Tasks
=============================================================================
