--------------------------- MODULE MCRollbackPointer ---------------------------
(***************************************************************************)
(* RollbackPointer for TLC.                                                *)
(***************************************************************************)
EXTENDS RollbackPointer, TLC

\* Backups are told apart only by equality, but they are numbers; writers are
\* model values and interchangeable within their kind.
RollbackSymmetry == Permutations(Rollbacks)
=============================================================================
