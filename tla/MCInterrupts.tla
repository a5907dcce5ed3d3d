---------------------------- MODULE MCInterrupts ----------------------------
(***************************************************************************)
(* The keyboard, a device on the line of the master's spurious interrupts  *)
(* and the first disk.  Line 14 has no handler, as in the kernel; 15 has   *)
(* no device, and all its interrupts are spurious ones of the slave.       *)
(***************************************************************************)
EXTENDS Interrupts

MCLines  == {1, 7, 14}
MCMapped == {1, 7}
=============================================================================
