-------------------------- MODULE RepositoryImplements -------------------------
(***************************************************************************)
(* The refinement mapping from Repository to SnapshotStore.  A snapshot is  *)
(* a row with status 'created', together with the bytes that its directory *)
(* holds at that moment: what a download or a rollback would deliver.      *)
(***************************************************************************)
EXTENDS Repository

Restorable(r) ==
    [id |-> r.id, born |-> r.created_at, content |-> payload[r.timestamp_dir]]

Hashed(r) ==
    [id |-> r.id, born |-> r.created_at, content |-> r.content_hash]

Catalog == {Restorable(r) : r \in Created(rows)}
Published == {Hashed(r) : r \in Created(recorded)}

Store == INSTANCE SnapshotStore WITH
    Identities <- 1 .. MaxEntries, Bytes <- Contents, KeepFor <- Retention,
    now <- clock, catalog <- Catalog, published <- Published

\* Seen through its rows and their payloads the repository is a store of
\* immutable snapshots: run_once publishes one in the INSERT of its row, whole
\* and with the bytes that were hashed; nothing a run, a request, pruning or a
\* crash does in between touches a published one; pruning retires only what is
\* past retention.
ImplementsSnapshotStore == Store!Spec
=============================================================================
