------------------------------- MODULE Repository ------------------------------
(***************************************************************************)
(* BackupRepository (crates/storage/src/repository.rs) over its two        *)
(* metadata stores (sqlite_store.rs, postgres_store.rs), as it is used by  *)
(* the tasks that share one root directory and one database:               *)
(*                                                                         *)
(*    Schedulers   scheduler_loop of a daemon: run_once, then pruning      *)
(*    OneShots     `run-once' processes: run_once only                     *)
(*    Handlers     requests of one daemon's HTTP server: rollback_backup   *)
(*                 and download_backup                                     *)
(*                                                                         *)
(* A step is one statement of the database or one system call on the root  *)
(* directory.  The code takes no lock across two of them, except for the   *)
(* rollback gate, so the steps of different tasks interleave freely.       *)
(***************************************************************************)
EXTENDS PointerFile, FiniteSets

CONSTANTS
    Schedulers, OneShots, Handlers,
    Contents,        \* collections that a sync can download
    Malformed,       \* those that extract_stats cannot read
    Backends,        \* "sqlite", "postgres": the stores that may be configured
    Retention,       \* retention_days in clock ticks, 0 if not positive
    TicksPerSecond,  \* resolution of created_at against timestamp_dir
    SharedSeconds,   \* BOOLEAN: different tasks may start in one second
    MaxTime,         \* bound on the clock
    MaxEntries,      \* bound on the inserted rows
    MaxFaults        \* bound on I/O errors and crashes

Runners == Schedulers \cup OneShots
Actors == Runners \cup Handlers

ASSUME ActorsAssumption ==
    /\ Writers = Actors
    /\ Schedulers \cap OneShots = {}
    /\ Runners \cap Handlers = {}

\* What a directory below backups/ holds besides a whole collection.anki2: it
\* does not exist, or has no payload file, an empty or a partly written one.
NoDir == "NoDir"
NoFile == "NoFile"
EmptyFile == "EmptyFile"
TornFile == "TornFile"
NotServed == "NotServed"

ASSUME ContentsAssumption ==
    /\ Malformed \subseteq Contents
    /\ Contents \cap {NoDir, NoFile, EmptyFile, TornFile, NotServed} = {}

ASSUME BackendsAssumption == Backends \subseteq {"sqlite", "postgres"}

ASSUME BoundsAssumption ==
    /\ SharedSeconds \in BOOLEAN
    /\ Retention \in Nat
    /\ TicksPerSecond \in Nat \ {0}
    /\ MaxTime \in Nat
    /\ MaxEntries \in Nat
    /\ MaxFaults \in Nat

VARIABLES
    clock,       \* Utc::now()
    backend,     \* the MetadataStore in use
    rows,        \* table backups
    recorded,    \* history: every row ever inserted
    nextId,      \* Uuid::new_v4(): a fresh number
    events,      \* table rollback_events
    payload,     \* backups/<dir>/collection.anki2
    manifest,    \* backups/<dir>/metadata.json: the id it names
    pc,          \* control state of each task
    entry,       \* the BackupEntry each task is working on
    doomed,      \* the rows whose directories a scheduler has to remove
    stamp,       \* history: second in which each runner last started
    served,      \* the bytes each handler last read for its answer
    faults       \* number of I/O errors and crashes so far

database == <<backend, rows, recorded, nextId, events>>
files == <<payload, manifest>>
history == <<stamp, served, faults>>
vars == <<clock, database, files, pointerVars, pc, entry, doomed, history>>

-----------------------------------------------------------------------------
\* format_timestamp_dir: SecondsFormat::Secs drops the fraction.
SecondOf(t) == t \div TicksPerSecond

Dirs == {SecondOf(t) : t \in 0 .. MaxTime}

\* A skipped entry has the empty string for its directory, and the path built
\* from it is that of backups/ itself.
RootDir == -1

Statuses == {"none", "draft", "created", "skipped"}

Entries == [id : Nat, created_at : Nat, timestamp_dir : Dirs \cup {RootDir},
            content_hash : Contents \cup {NoFile}, status : Statuses]

NoEntry == [id |-> 0, created_at |-> 0, timestamp_dir |-> RootDir,
            content_hash |-> NoFile, status |-> "none"]

Created(S) == {r \in S : r.status = "created"}

\* Steps of run_once, of pruning, and of the handlers.
RunLocations == {"check", "skip", "mkdir", "create", "fill", "stats", "insert",
                 "manifest", "ptrOpen", "ptrFill", "ptrRename"}
PruneLocations == {"prune", "delete", "rmdir", "unlink"}
HandlerLocations == {"ptrOpen", "ptrFill", "ptrRename", "event",
                     "upload", "read"}
Locations == {"idle"} \cup RunLocations \cup PruneLocations \cup HandlerLocations

TypeOK ==
    /\ PointerTypeOK
    /\ clock \in 0 .. MaxTime
    /\ backend \in Backends
    /\ rows \subseteq Entries
    /\ recorded \subseteq Entries
    /\ nextId \in 1 .. MaxEntries + 1
    /\ events \subseteq Nat
    /\ payload \in [Dirs -> Contents \cup {NoDir, NoFile, EmptyFile, TornFile}]
    /\ manifest \in [Dirs -> Nat]
    /\ pc \in [Actors -> Locations]
    /\ entry \in [Actors -> Entries]
    /\ doomed \in [Schedulers -> SUBSET Entries]
    /\ stamp \in [Runners -> Int]
    /\ served \in [Handlers -> Contents \cup {EmptyFile, TornFile, NotServed}]
    /\ faults \in 0 .. MaxFaults

Init ==
    /\ PointerInit
    /\ clock = 0
    /\ backend \in Backends
    /\ rows = {} /\ recorded = {} /\ nextId = 1 /\ events = {}
    /\ payload = [d \in Dirs |-> NoDir]
    /\ manifest = [d \in Dirs |-> 0]
    /\ pc = [a \in Actors |-> "idle"]
    /\ entry = [a \in Actors |-> NoEntry]
    /\ doomed = [w \in Schedulers |-> {}]
    /\ stamp = [w \in Runners |-> -1]
    /\ served = [h \in Handlers |-> NotServed]
    /\ faults = 0

Goto(a, l) == pc' = [pc EXCEPT ![a] = l]

\* The caller of run_once has its result, Ok or Err: a scheduler goes on to
\* prune in both cases, a run-once process exits.
EndRun(w) ==
    /\ Goto(w, IF w \in Schedulers THEN "prune" ELSE "idle")
    /\ entry' = [entry EXCEPT ![w] = NoEntry]

-----------------------------------------------------------------------------
(***************************************************************************)
(* run_once.                                                               *)
(***************************************************************************)

\* scheduler_loop sleeps for at least a second between two runs.  Different
\* tasks start in different seconds only if SharedSeconds rules it out.
MayStart(w) ==
    /\ w \in Schedulers => SecondOf(clock) > stamp[w]
    /\ ~SharedSeconds => \A v \in Runners : SecondOf(clock) > stamp[v]

\* Mutant: directory names of a coarser resolution than the starts of runs.
BeginRunCoarse(w, c) ==
    /\ pc[w] = "idle"
    /\ MayStart(w)
    /\ nextId <= MaxEntries
    /\ stamp' = [stamp EXCEPT ![w] = SecondOf(clock)]
    /\ entry' = [entry EXCEPT ![w] =
            [id |-> 0, created_at |-> clock, timestamp_dir |-> SecondOf(clock) \div 2,
             content_hash |-> c, status |-> "draft"]]
    /\ Goto(w, "check")
    /\ UNCHANGED <<clock, database, files, pointerVars, doomed, served, faults>>

\* The sync has returned collection c; run_once is called and reads the clock.
BeginRun(w, c) ==
    /\ pc[w] = "idle"
    /\ MayStart(w)
    /\ nextId <= MaxEntries
    /\ stamp' = [stamp EXCEPT ![w] = SecondOf(clock)]
    /\ entry' = [entry EXCEPT ![w] =
            [id |-> 0, created_at |-> clock, timestamp_dir |-> SecondOf(clock),
             content_hash |-> c, status |-> "draft"]]
    /\ Goto(w, "check")
    /\ UNCHANGED <<clock, database, files, pointerVars, doomed, served, faults>>

\* Mutant: ORDER BY created_at ASC.
OldestCreated ==
    {r \in Created(rows) : \A q \in Created(rows) : r.created_at <= q.created_at}

\* Mutant: the last hash is remembered from run to run.
CachedLastCreated ==
    {r \in Created(recorded) : \A q \in Created(recorded) : q.created_at <= r.created_at}

\* last_created_hash: one of the rows that ORDER BY created_at DESC puts first.
LastCreated ==
    {r \in Created(rows) : \A q \in Created(rows) : q.created_at <= r.created_at}

FindUnchanged(w) ==
    /\ pc[w] = "check"
    /\ \E r \in LastCreated : r.content_hash = entry[w].content_hash
    /\ Goto(w, "skip")
    /\ UNCHANGED <<clock, database, files, pointerVars, entry, doomed, history>>

FindChanged(w) ==
    /\ pc[w] = "check"
    /\ \/ LastCreated = {}
       \/ \E r \in LastCreated : r.content_hash # entry[w].content_hash
    /\ Goto(w, "mkdir")
    /\ UNCHANGED <<clock, database, files, pointerVars, entry, doomed, history>>

\* create_and_insert_entry builds the entry from the new one and a fresh id.
BackupEntry(new, st, dir) ==
    [id |-> nextId, created_at |-> new.created_at, timestamp_dir |-> dir,
     content_hash |-> new.content_hash, status |-> st]

\* insert_entry: one INSERT statement with a fresh id.  (The bound keeps tasks
\* that started together from passing MaxEntries.)
Insert(r) ==
    /\ nextId <= MaxEntries
    /\ rows' = rows \cup {r}
    /\ recorded' = recorded \cup {r}
    /\ nextId' = nextId + 1
    /\ UNCHANGED <<backend, events>>

\* NewBackupEntry::skipped_unchanged: no directory, no pointer.
InsertSkipped(w) ==
    /\ pc[w] = "skip"
    /\ Insert(BackupEntry(entry[w], "skipped", RootDir))
    /\ EndRun(w)
    /\ UNCHANGED <<clock, files, pointerVars, doomed, history>>

\* create_dir_all: an existing directory is fine.
MakeDir(w) ==
    LET d == entry[w].timestamp_dir IN
    /\ pc[w] = "mkdir"
    /\ payload' = [payload EXCEPT ![d] = IF @ = NoDir THEN NoFile ELSE @]
    /\ Goto(w, "create")
    /\ UNCHANGED <<clock, database, manifest, pointerVars, entry, doomed, history>>

\* fs::write of collection.anki2, first half: O_CREAT | O_TRUNC.
CreatePayload(w) ==
    LET d == entry[w].timestamp_dir IN
    /\ pc[w] = "create"
    /\ payload[d] # NoDir
    /\ payload' = [payload EXCEPT ![d] = EmptyFile]
    /\ Goto(w, "fill")
    /\ UNCHANGED <<clock, database, manifest, pointerVars, entry, doomed, history>>

\* What a write of collection c from offset 0 leaves in a file that held old:
\* a longer collection of another run shows behind it.
WrittenOver(old, c) ==
    IF old = NoDir THEN {NoDir}
    ELSE IF old \in {EmptyFile, c} THEN {c} ELSE {c, TornFile}

\* fs::write, second half.
FillPayload(w) ==
    LET d == entry[w].timestamp_dir IN
    /\ pc[w] = "fill"
    /\ \E new \in WrittenOver(payload[d], entry[w].content_hash) :
            payload' = [payload EXCEPT ![d] = new]
    /\ Goto(w, "stats")
    /\ UNCHANGED <<clock, database, manifest, pointerVars, entry, doomed, history>>

\* extract_stats opens the file that is there and queries its tables: of a torn
\* file they may or may not be readable.
StatsOk(w) ==
    /\ pc[w] = "stats"
    /\ payload[entry[w].timestamp_dir] \in (Contents \ Malformed) \cup {TornFile}
    /\ Goto(w, "insert")
    /\ UNCHANGED <<clock, database, files, pointerVars, entry, doomed, history>>

\* ... and its error ends the run: the directory stays, without a row.
StatsError(w) ==
    /\ pc[w] = "stats"
    /\ payload[entry[w].timestamp_dir] \notin Contents \ Malformed
    /\ EndRun(w)
    /\ UNCHANGED <<clock, database, files, pointerVars, doomed, history>>

\* Mutant: the INSERT is never awaited.
InsertNotAwaited(w) ==
    /\ pc[w] = "insert"
    /\ entry' = [entry EXCEPT ![w] =
            BackupEntry(entry[w], "created", entry[w].timestamp_dir)]
    /\ nextId' = nextId + 1
    /\ Goto(w, "manifest")
    /\ UNCHANGED <<clock, backend, rows, recorded, events, files, pointerVars, doomed, history>>

\* NewBackupEntry::created and insert_entry.
InsertCreated(w) ==
    LET r == BackupEntry(entry[w], "created", entry[w].timestamp_dir) IN
    /\ pc[w] = "insert"
    /\ Insert(r)
    /\ entry' = [entry EXCEPT ![w] = r]
    /\ Goto(w, "manifest")
    /\ UNCHANGED <<clock, files, pointerVars, doomed, history>>

\* Mutant: run_once returns without the pointer.
WriteManifestOnly(w) ==
    /\ pc[w] = "manifest"
    /\ payload[entry[w].timestamp_dir] # NoDir
    /\ manifest' = [manifest EXCEPT ![entry[w].timestamp_dir] = entry[w].id]
    /\ EndRun(w)
    /\ UNCHANGED <<clock, database, payload, pointerVars, doomed, history>>

\* metadata.json, written after the row; nothing reads it back.
WriteManifest(w) ==
    LET d == entry[w].timestamp_dir IN
    /\ pc[w] = "manifest"
    /\ payload[d] # NoDir
    /\ manifest' = [manifest EXCEPT ![d] = entry[w].id]
    /\ Goto(w, "ptrOpen")
    /\ UNCHANGED <<clock, database, payload, pointerVars, entry, doomed, history>>

\* A write into a directory that another scheduler has removed fails.
DirectoryGone(w) ==
    /\ pc[w] \in {"create", "manifest"}
    /\ payload[entry[w].timestamp_dir] = NoDir
    /\ EndRun(w)
    /\ UNCHANGED <<clock, database, files, pointerVars, doomed, history>>

-----------------------------------------------------------------------------
(***************************************************************************)
(* write_current_pointer, called by run_once and by rollback_to.           *)
(***************************************************************************)

OpenPointer(a) ==
    /\ pc[a] = "ptrOpen"
    /\ OpenTmp(a)
    /\ Goto(a, "ptrFill")
    /\ UNCHANGED <<clock, database, files, entry, doomed, history>>

FillPointer(a) ==
    /\ pc[a] = "ptrFill"
    /\ FillTmp(a, entry[a].id)
    /\ Goto(a, "ptrRename")
    /\ UNCHANGED <<clock, database, files, entry, doomed, history>>

RenamePointer(a) ==
    /\ pc[a] = "ptrRename"
    /\ RenameTmp
    /\ \/ a \in Runners /\ EndRun(a)
       \/ a \in Handlers /\ Goto(a, "event") /\ UNCHANGED entry
    /\ UNCHANGED <<clock, database, files, doomed, history>>

\* Another writer has renamed the temporary file: run_once or the rollback
\* returns the error.
RenamePointerError(a) ==
    /\ pc[a] = "ptrRename"
    /\ RenameFails
    /\ \/ a \in Runners /\ EndRun(a)
       \/ a \in Handlers /\ Goto(a, "idle") /\ UNCHANGED entry
    /\ UNCHANGED <<clock, database, files, doomed, history>>

-----------------------------------------------------------------------------
(***************************************************************************)
(* prune_created_older_than_days.                                          *)
(***************************************************************************)

\* Mutant: no condition on the status.
ExpiredAnyStatus == {r \in rows : r.created_at < clock - Retention}

\* status = 'created' AND created_at < cutoff.
Expired == {r \in Created(rows) : r.created_at < clock - Retention}

\* retention_days <= 0, or nothing to prune.
PruneNothing(w) ==
    /\ pc[w] = "prune"
    /\ Retention = 0 \/ Expired = {}
    /\ Goto(w, "idle")
    /\ UNCHANGED <<clock, database, files, pointerVars, entry, doomed, history>>

\* Mutant: the directories go, the rows stay.
SelectWithoutDelete(w) ==
    /\ pc[w] = "prune"
    /\ backend = "sqlite" /\ Retention > 0 /\ Expired # {}
    /\ doomed' = [doomed EXCEPT ![w] = Expired]
    /\ Goto(w, "rmdir")
    /\ UNCHANGED <<clock, database, files, pointerVars, entry, history>>

\* SqliteStore: a SELECT collects the rows ...
SelectDoomed(w) ==
    /\ pc[w] = "prune"
    /\ backend = "sqlite" /\ Retention > 0 /\ Expired # {}
    /\ doomed' = [doomed EXCEPT ![w] = Expired]
    /\ Goto(w, "delete")
    /\ UNCHANGED <<clock, database, files, pointerVars, entry, history>>

\* ... and one DELETE each removes them, outside of any transaction.
DeleteRow(w) ==
    /\ pc[w] = "delete"
    /\ \E r \in doomed[w] \cap rows : rows' = rows \ {r}
    /\ UNCHANGED <<clock, backend, recorded, nextId, events, files, pointerVars, pc,
                   entry, doomed, history>>

DeletesDone(w) ==
    /\ pc[w] = "delete"
    /\ doomed[w] \cap rows = {}
    /\ Goto(w, "rmdir")
    /\ UNCHANGED <<clock, database, files, pointerVars, entry, doomed, history>>

\* PostgresStore: DELETE ... RETURNING.
DeleteReturning(w) ==
    /\ pc[w] = "prune"
    /\ backend = "postgres" /\ Retention > 0 /\ Expired # {}
    /\ doomed' = [doomed EXCEPT ![w] = Expired]
    /\ rows' = rows \ Expired
    /\ Goto(w, "rmdir")
    /\ UNCHANGED <<clock, backend, recorded, nextId, events, files, pointerVars, entry,
                   history>>

DirExists(d) == d = RootDir \/ payload[d] # NoDir

\* The loop over the doomed directories: dir.exists() ...
CheckDir(w) ==
    /\ pc[w] = "rmdir"
    /\ \E r \in doomed[w] :
        \/ /\ DirExists(r.timestamp_dir)
           /\ entry' = [entry EXCEPT ![w] = r]
           /\ Goto(w, "unlink")
           /\ UNCHANGED doomed
        \/ /\ ~DirExists(r.timestamp_dir)
           /\ doomed' = [doomed EXCEPT ![w] = @ \ {r}]
           /\ UNCHANGED <<pc, entry>>
    /\ UNCHANGED <<clock, database, files, pointerVars, history>>

\* Mutant: the rows go, the directories stay.
KeepDir(d) == UNCHANGED files

\* remove_dir_all: a directory with everything below it.
RemoveDir(d) ==
    /\ payload' = [x \in Dirs |-> IF d \in {x, RootDir} THEN NoDir ELSE payload[x]]
    /\ manifest' = [x \in Dirs |-> IF d \in {x, RootDir} THEN 0 ELSE manifest[x]]

\* ... then remove_dir_all.
UnlinkDir(w) ==
    /\ pc[w] = "unlink"
    /\ DirExists(entry[w].timestamp_dir)
    /\ RemoveDir(entry[w].timestamp_dir)
    /\ doomed' = [doomed EXCEPT ![w] = @ \ {entry[w]}]
    /\ entry' = [entry EXCEPT ![w] = NoEntry]
    /\ Goto(w, "rmdir")
    /\ UNCHANGED <<clock, database, pointerVars, history>>

\* Another scheduler was faster: the error ends the pruning, and the
\* directories that are left in the list are not removed.
UnlinkError(w) ==
    /\ pc[w] = "unlink"
    /\ ~DirExists(entry[w].timestamp_dir)
    /\ doomed' = [doomed EXCEPT ![w] = {}]
    /\ entry' = [entry EXCEPT ![w] = NoEntry]
    /\ Goto(w, "idle")
    /\ UNCHANGED <<clock, database, files, pointerVars, history>>

PruneDone(w) ==
    /\ pc[w] = "rmdir"
    /\ doomed[w] = {}
    /\ Goto(w, "idle")
    /\ UNCHANGED <<clock, database, files, pointerVars, entry, doomed, history>>

-----------------------------------------------------------------------------
(***************************************************************************)
(* rollback_backup and download_backup.  Requests that are refused before  *)
(* they change anything (unknown id, skipped entry, rate limit) are not    *)
(* steps of the model.                                                     *)
(***************************************************************************)

\* The request holds rollback_gate, from before the lookup until it answers.
InRollback(h) == pc[h] \in {"ptrOpen", "ptrFill", "ptrRename", "event", "upload"}

\* get_backup has found a created row: the handler keeps a copy of it.
Lookup(h, r, l) ==
    /\ pc[h] = "idle"
    /\ entry' = [entry EXCEPT ![h] = r]
    /\ served' = [served EXCEPT ![h] = NotServed]
    /\ Goto(h, l)
    /\ UNCHANGED <<clock, database, files, pointerVars, doomed, stamp, faults>>

\* rollback_to, under rollback_gate.
Rollback(h) ==
    /\ ~\E g \in Handlers : InRollback(g)
    /\ \E r \in Created(rows) : Lookup(h, r, "ptrOpen")

\* insert_rollback_event.  With a sync configuration the handler goes on to
\* read the payload for the upload; without one it is done.
RecordEvent(h) ==
    /\ pc[h] = "event"
    /\ events' = events \cup {entry[h].id}
    /\ \E l \in {"upload", "idle"} : Goto(h, l)
    /\ UNCHANGED <<clock, backend, rows, recorded, nextId, files, pointerVars, entry,
                   doomed, history>>

Download(h) == \E r \in Created(rows) : Lookup(h, r, "read")

\* Mutant: a missing file is not an error.
ReadAnything(h) ==
    /\ pc[h] \in {"upload", "read"}
    /\ served' = [served EXCEPT ![h] = payload[entry[h].timestamp_dir]]
    /\ Goto(h, "idle")
    /\ UNCHANGED <<clock, database, files, pointerVars, entry, doomed, stamp, faults>>

\* fs::read of the payload at the path that the entry names; the bytes go to
\* AnkiWeb or into the archive of the response.
ReadPayload(h) ==
    LET bytes == payload[entry[h].timestamp_dir] IN
    /\ pc[h] \in {"upload", "read"}
    /\ bytes \notin {NoDir, NoFile}
    /\ served' = [served EXCEPT ![h] = bytes]
    /\ Goto(h, "idle")
    /\ UNCHANGED <<clock, database, files, pointerVars, entry, doomed, stamp, faults>>

\* Status 500: the file is gone.
ReadError(h) ==
    /\ pc[h] \in {"upload", "read"}
    /\ payload[entry[h].timestamp_dir] \in {NoDir, NoFile}
    /\ Goto(h, "idle")
    /\ UNCHANGED <<clock, database, files, pointerVars, entry, doomed, history>>

-----------------------------------------------------------------------------
(***************************************************************************)
(* Time and faults.                                                        *)
(***************************************************************************)

Tick ==
    /\ clock < MaxTime
    /\ clock' = clock + 1
    /\ UNCHANGED <<database, files, pointerVars, pc, entry, doomed, history>>

\* What task a held in memory is lost, and what it wrote stays as it is.  The
\* next step of the task is at l.
Abandon(a, l) ==
    /\ faults < MaxFaults
    /\ faults' = faults + 1
    /\ CloseDescriptor(a)
    /\ Goto(a, l)
    /\ entry' = [entry EXCEPT ![a] = NoEntry]
    /\ doomed' = [w \in Schedulers |-> IF w = a THEN {} ELSE doomed[w]]
    /\ served' = [h \in Handlers |-> IF h = a THEN NotServed ELSE served[h]]
    /\ UNCHANGED <<clock, database, files, stamp>>

\* An I/O or database error in run_once: the scheduler logs it and prunes.
RunFails(w) ==
    /\ pc[w] \in RunLocations
    /\ Abandon(w, "prune")

\* Any other error, a request that is dropped, or the end of the process; the
\* task starts over.
Crash(a) ==
    /\ pc[a] # "idle"
    /\ Abandon(a, "idle")

-----------------------------------------------------------------------------
RunOnce(w) ==
    \/ \E c \in Contents : BeginRun(w, c)
    \/ FindUnchanged(w) \/ FindChanged(w)
    \/ InsertSkipped(w)
    \/ MakeDir(w) \/ CreatePayload(w) \/ FillPayload(w)
    \/ StatsOk(w) \/ StatsError(w)
    \/ InsertCreated(w) \/ WriteManifest(w) \/ DirectoryGone(w)

WritePointer(a) ==
    OpenPointer(a) \/ FillPointer(a) \/ RenamePointer(a) \/ RenamePointerError(a)

Prune(w) ==
    \/ PruneNothing(w)
    \/ SelectDoomed(w) \/ DeleteRow(w) \/ DeletesDone(w)
    \/ DeleteReturning(w)
    \/ CheckDir(w) \/ UnlinkDir(w) \/ UnlinkError(w) \/ PruneDone(w)

Handle(h) ==
    \/ Rollback(h) \/ RecordEvent(h)
    \/ Download(h) \/ ReadPayload(h) \/ ReadError(h)

Next ==
    \/ \E w \in Runners : RunOnce(w)
    \/ \E a \in Actors : WritePointer(a) \/ Crash(a)
    \/ \E w \in Schedulers : Prune(w) \/ RunFails(w)
    \/ \E h \in Handlers : Handle(h)
    \/ Tick

Spec == Init /\ [][Next]_vars

-----------------------------------------------------------------------------
(***************************************************************************)
(* Properties.                                                             *)
(***************************************************************************)

\* Older than the retention period.
PastRetention(r) == Retention > 0 /\ r.created_at + Retention < clock

\* A backup is durable: from the INSERT of its row on, its directory holds
\* exactly the bytes that were hashed, through every interleaving and crash,
\* until pruning has deleted the row of a backup past retention (run_once
\* writes the payload before the row; pruning deletes the row before the
\* payload; a directory belongs to one backup).
BackupsDurable ==
    \A r \in Created(recorded) :
        \/ payload[r.timestamp_dir] = r.content_hash
        \/ payload[r.timestamp_dir] = NoDir /\ r \notin rows /\ PastRetention(r)

\* Whatever a download or the upload of a rollback sends is the content of the
\* backup that was looked up, although the file is read after the lookup and
\* runs and pruning go on in between.
ServedFaithful ==
    \A h \in Handlers : served[h] # NotServed => served[h] = entry[h].content_hash

\* current-pointer.json, when it names a backup, names one that has been
\* recorded as created, and that still has its row unless it is past
\* retention (run_once inserts the row before it writes the pointer).
PointerNamesRecorded ==
    dst \in Nat \ {Absent} =>
        \E r \in Created(recorded) : r.id = dst /\ (r \in rows \/ PastRetention(r))

\* A row disappears only if it is a created backup past retention.
OnlyExpiredPruned ==
    [][\A r \in rows \ rows' : r.status = "created" /\ PastRetention(r)]_vars

\* A new backup differs from the newest one before it: run_once compares the
\* hash with last_created_hash before it creates anything.
ChangeAware ==
    [][\A r \in Created(rows' \ rows), q \in Created(rows) :
            (\A x \in Created(rows) : x.created_at <= q.created_at)
                => r.content_hash # q.content_hash]_vars

\* A run is skipped only if a backup with the same content is there to be
\* restored, its payload included.
SkipJustified ==
    [][\A s \in (rows' \ rows) \ Created(rows') :
            \E r \in Created(rows) :
                /\ r.content_hash = s.content_hash
                /\ payload[r.timestamp_dir] = s.content_hash]_vars

AllIdle == \A a \in Actors : pc[a] = "idle"

\* With one task and no faults the pointer names the newest backup whenever
\* the task rests (run_once ends with write_current_pointer).
PointerCurrent ==
    faults = 0 /\ AllIdle =>
        \A r \in Created(recorded) :
            (\A q \in Created(recorded) : q.created_at <= r.created_at) => dst = r.id

\* No two schedulers have the same directory to remove: DELETE ... RETURNING
\* hands a row to one of them, and SELECT to all.
ListsDisjoint == backend = "sqlite" => \A v, w \in Schedulers : v = w

\* Without faults no directory is left behind: every one belongs to a row, to a
\* run in progress or to a list of directories to remove, except for those of
\* downloads that extract_stats has rejected.  Two schedulers on SQLite are left
\* out: their lists may share a directory, and the one that comes second to it
\* gives up the rest of its list.
NoOrphans ==
    faults = 0 /\ ListsDisjoint =>
        \A d \in {x \in Dirs : payload[x] \notin Malformed \cup {NoDir}} :
            \/ \E r \in Created(rows) : r.timestamp_dir = d
            \/ \E w \in Runners : pc[w] \in RunLocations /\ entry[w].timestamp_dir = d
            \/ \E w \in Schedulers : \E r \in doomed[w] : r.timestamp_dir = d
=============================================================================
