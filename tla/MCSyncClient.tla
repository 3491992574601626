----------------------------- MODULE MCSyncClient -----------------------------
(***************************************************************************)
(* Model values for the run of SyncClient.                                 *)
(***************************************************************************)
EXTENDS SyncClient

CONSTANTS c1, front, shard1, A, B
=============================================================================
