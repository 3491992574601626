----------------------------- MODULE MCScheduler -----------------------------
(***************************************************************************)
(* Scheduler for TLC: the length of its hour is chosen in the .cfg.        *)
(***************************************************************************)
EXTENDS Scheduler
=============================================================================
