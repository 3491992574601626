---------------------------- MODULE MCRollbackGate ----------------------------
(***************************************************************************)
(* Model values for the run of RollbackGate.                               *)
(***************************************************************************)
EXTENDS RollbackGate

CONSTANTS h1, h2, A, B
=============================================================================
