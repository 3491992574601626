--------------------------------- MODULE Stores ---------------------------------
(***************************************************************************)
(* The SQLite and the Postgres store (crates/storage/src/sqlite_store.rs,  *)
(* postgres_store.rs).  They have the same operations and differ in the    *)
(* column created_at, which is text or microseconds, and in pruning: each  *)
(* operation of SqliteStore opens its own connection on a blocking thread, *)
(* so others come between the statements of prune_created_before, which    *)
(* in PostgresStore is one statement.                                      *)
(***************************************************************************)
EXTENDS BackupRows, FiniteSets

CONSTANT MaxRows    \* bound on the rows of the table

VARIABLES
    backend,   \* which of the two stores it is
    backups,   \* rows of the table backups
    doomed,    \* rows that prune_created_before has still to delete
    cutoff,    \* its last argument
    answer,    \* of the last query
    given      \* history: created_at of each entry as it was inserted

vars == <<backend, backups, doomed, cutoff, answer, given>>

Sqlite == backend = "sqlite"

-----------------------------------------------------------------------------
\* A time as it is bound to a parameter, and the order the database has on them.
Bind(t) == IF Sqlite THEN Rfc3339(t) ELSE Micros(t)

Less(x, y) == IF Sqlite THEN TextLess(x, y) ELSE Before(x, y)

ToRow(e) ==
    [id |-> e.id, created_at |-> Bind(e.at), timestamp_dir |-> e.dir,
     content_hash |-> e.hash, status |-> StatusStr(e.status),
     skip_reason |-> SkipReasonStr(e.skip_reason), stats_json |-> e.stats]

RowToEntry(r) ==
    [id |-> r.id, at |-> IF Sqlite THEN ParseTs(r.created_at) ELSE r.created_at,
     dir |-> r.timestamp_dir, hash |-> r.content_hash,
     status |-> ParseStatus(r.status),
     skip_reason |-> ParseSkipReason(r.skip_reason), stats |-> r.stats_json]

\* ORDER BY created_at DESC: every order that the column allows.
NewestFirst(rows) ==
    {s \in [1 .. Cardinality(rows) -> rows] :
        \A i, j \in DOMAIN s :
            i < j => s[i] # s[j] /\ ~Less(s[i].created_at, s[j].created_at)}

Init ==
    /\ backend \in {"sqlite", "postgres"}
    /\ backups = {} /\ doomed = {}
    /\ cutoff \in Instants
    /\ answer = <<>>
    /\ given = [i \in {} |-> cutoff]

InsertEntry ==
    /\ Cardinality(backups) < MaxRows
    /\ \E e \in Entries :
          /\ \A r \in backups : r.id # e.id
          /\ backups' = backups \cup {ToRow(e)}
          /\ given' = [i \in DOMAIN given \cup {e.id} |->
                          IF i = e.id THEN e.at ELSE given[i]]
    /\ answer' = <<>>
    /\ UNCHANGED <<backend, doomed, cutoff>>

ListBackups ==
    /\ \E s \in NewestFirst(backups) :
          answer' = [i \in DOMAIN s |-> RowToEntry(s[i])]
    /\ UNCHANGED <<backend, backups, doomed, cutoff, given>>

GetBackup ==
    /\ \E i \in Ids :
          LET found == {r \in backups : r.id = i} IN
          IF found = {} THEN answer' = <<>>
          ELSE \E r \in found : answer' = <<RowToEntry(r)>>
    /\ UNCHANGED <<backend, backups, doomed, cutoff, given>>

Created == {r \in backups : r.status = "created"}

LastCreatedHash ==
    /\ IF Created = {}
       THEN answer' = <<>>
       ELSE \E s \in NewestFirst(Created) :
               answer' = <<[hash |-> s[1].content_hash]>>
    /\ UNCHANGED <<backend, backups, doomed, cutoff, given>>

\* status = 'created' AND created_at < cutoff
ExpiredInclusive(c) == {r \in Created : ~Less(Bind(c), r.created_at)}

Expired(c) == {r \in Created : Less(r.created_at, Bind(c))}

\* SqliteStore selects the rows, then deletes one after the other.
SelectDoomed ==
    /\ Sqlite /\ doomed = {}
    /\ cutoff' \in Instants
    /\ doomed' = Expired(cutoff')
    /\ answer' = <<>>
    /\ UNCHANGED <<backend, backups, given>>

DeleteRow ==
    /\ \E r \in doomed :
          /\ backups' = {s \in backups : s.id # r.id}
          /\ doomed' = doomed \ {r}
    /\ answer' = <<>>
    /\ UNCHANGED <<backend, cutoff, given>>

\* A DELETE fails, say because another connection has the database locked.
DeleteFails ==
    /\ doomed # {} /\ doomed' = {}
    /\ UNCHANGED <<backend, backups, cutoff, answer, given>>

\* PostgresStore: DELETE ... RETURNING
DeleteReturning ==
    /\ ~Sqlite
    /\ cutoff' \in Instants
    /\ backups' = backups \ Expired(cutoff')
    /\ answer' = <<>>
    /\ UNCHANGED <<backend, doomed, given>>

Next == \/ InsertEntry \/ ListBackups \/ GetBackup \/ LastCreatedHash
        \/ SelectDoomed \/ DeleteRow \/ DeleteFails \/ DeleteReturning

Spec == Init /\ [][Next]_vars

-----------------------------------------------------------------------------
Times == Instants \cup {Micros(t) : t \in Instants}

Store == INSTANCE MetadataStore WITH
            entries <- {RowToEntry(r) : r \in backups},
            cutoff <- IF Sqlite THEN cutoff ELSE Micros(cutoff),
            Instants <- Times, Cutoffs <- Times

\* Both stores implement MetadataStore: entries come back as they were given
\* (by Postgres to the microsecond), and ordering, last hash and pruning by the
\* column are those by time, although the texts of SQLite differ in length.
ImplementsMetadataStore == Store!Spec

\* No backup is pruned whose real age is within the retention period: neither
\* comparing text nor cutting off the nanoseconds of created_at and of the
\* cutoff makes prune_created_before early.
NonePrunedEarly ==
    [][\A r \in backups \ backups' : Before(given[r.id], cutoff')]_vars
=============================================================================
