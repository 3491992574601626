------------------------------- MODULE MCDaemon -------------------------------
(***************************************************************************)
(* Model values for the run of Daemon.                                    *)
(***************************************************************************)
EXTENDS Daemon

CONSTANTS c1, c2, c3, bad
=============================================================================
