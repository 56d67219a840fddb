---------------------------- MODULE MCInterrupts ----------------------------
(***************************************************************************)
(* Instance of Interrupts for TLC.  The ticks keep the proportions that    *)
(* matter: a system tick is longer than a user tick and longer than the    *)
(* shortest random timer delay (machine/stats.h has 10, 1 and 1 to 200).   *)
(***************************************************************************)
EXTENDS Interrupts
=============================================================================
