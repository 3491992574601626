----------------------------- MODULE MetadataStore -----------------------------
(***************************************************************************)
(* What the trait MetadataStore (crates/storage/src/store.rs) promises to  *)
(* the repository, whichever database keeps the rows: a set of entries     *)
(* that is listed newest first, of which the newest created one gives the  *)
(* last hash, and which loses created entries only, and only old ones.     *)
(***************************************************************************)
EXTENDS BackupRows, FiniteSets, Functions

CONSTANT Cutoffs    \* times that pruning may be asked for

VARIABLES
    entries,   \* the entries in the store
    cutoff,    \* of the last prune_created_before
    answer     \* of the last query

vars == <<entries, cutoff, answer>>

NoEntries == <<>>

Init ==
    /\ entries = {}
    /\ cutoff \in Cutoffs
    /\ answer = NoEntries

InsertEntry ==
    /\ \E e \in Entries :
          /\ \A d \in entries : d.id # e.id
          /\ entries' = entries \cup {e}
    /\ answer' = NoEntries
    /\ UNCHANGED cutoff

\* `List all backups ordered by created_at DESC.'
ListBackups ==
    /\ Len(answer') = Cardinality(entries) /\ Range(answer') = entries
    /\ \A i, j \in DOMAIN answer' :
          i < j => ~Before(answer'[i].at, answer'[j].at)
    /\ UNCHANGED <<entries, cutoff>>

\* `Get a single backup by id.'
GetBackup ==
    /\ \E i \in Ids :
          LET found == {e \in entries : e.id = i} IN
          Len(answer') = Cardinality(found) /\ Range(answer') = found
    /\ UNCHANGED <<entries, cutoff>>

\* `Hash of the most recent "created" backup.'
LastCreatedHash ==
    LET created == {e \in entries : e.status = "Created"} IN
    /\ IF created = {}
       THEN answer' = NoEntries
       ELSE \E e \in created :
               /\ \A d \in created : ~Before(e.at, d.at)
               /\ answer' = <<[hash |-> e.hash]>>
    /\ UNCHANGED <<entries, cutoff>>

\* `Return (id, timestamp_dir) of created backups older than cutoff, then delete
\* them.'  They may go one by one.
PruneCreatedBefore ==
    /\ cutoff' \in Cutoffs
    /\ \E gone \in SUBSET entries :
          /\ \A e \in gone : e.status = "Created" /\ Before(e.at, cutoff')
          /\ entries' = entries \ gone
    /\ answer' = NoEntries

Next == \/ InsertEntry \/ ListBackups \/ GetBackup \/ LastCreatedHash
        \/ PruneCreatedBefore

Spec == Init /\ [][Next]_vars
=============================================================================
