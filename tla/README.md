# TLA+ models of anki-backup-tool

A daemon downloads an Anki collection from AnkiWeb every hour, keeps a copy of
it whenever it has changed, deletes copies past their retention period, and
serves them over HTTP for download and rollback. This directory holds TLA+
specifications of the parts where order matters, TLC configurations that check
them on small instances, and TLAPS proofs of what holds for every instance.

    tlc -workers 2 -config MCRepositoryServed.cfg MCRepository
    tlapm DurabilityProofs.tla

`PROJECT.json` lists runs, mutants, theorems, hazards, and the source lines
behind every definition.

## 1. Inventory of the system

| Part | State | Operations | Talks to |
|---|---|---|---|
| `BackupRepository` (`storage/src/repository.rs`) | `backups/<second>/collection.anki2`, `metadata.json`, `state/current-pointer.json` | `run_once`, `rollback_to`, `prune_created_older_than_days`, `get_backup`, `list_backups` | metadata store, file system |
| `SqliteStore`, `PostgresStore` | tables `backups`, `rollback_events` | `insert_entry`, `last_created_hash`, `get_backup`, `list_backups`, `insert_rollback_event`, `prune_created_before` | database |
| Scheduler (`daemon/src/main.rs`, `scheduler_loop`) | none | sleep to the hour, sync, `run_once`, prune | sync client, repository |
| `run-once` process (`main.rs`, `run_once`) | none | sync, `run_once` | the same, in a process of its own |
| HTTP server (`daemon/src/server.rs`) | `rollback_gate`: time of the last rollback, behind a mutex | rollback, download, list, detail, health | repository, sync client |
| Sync client (`sync/src/lib.rs`) | endpoint and host key of one exchange | `sync_collection`, `upload_collection` | AnkiWeb |
| Core (`core/src`) | none | entry constructors, `content_hash` | |
| Configuration (`main.rs`, `config.rs`) | none | flags, environment, file | |

What makes it hard:

- **No lock.** The only mutex is `rollback_gate`. The scheduler, requests,
  `run-once` processes and other daemons on the same root interleave at every
  database statement and system call.
- **One temporary name.** Every writer of the pointer goes through
  `current-pointer.json.tmp`.
- **Directories named by the second**, created with `create_dir_all`, which
  accepts an existing one.
- **Database and files are not one transaction.** Each operation changes both,
  in an order that decides what a crash leaves behind.
- **Lookups go stale**: a handler keeps a copy of a row while pruning runs.
- **Skipped runs are rows too**, with an empty directory name; the path built
  from one is that of all backups.

## 2. Modules

| Module | Role |
|---|---|
| `PointerFile` | the pointer and its temporary file: `open`, `write`, `rename`, and what a file descriptor refers to after a rename |
| `RollbackPointer` | the two callers of `write_current_pointer`, the gate, the audit record |
| `Repository` | the core: `run_once`, pruning with both stores, rollback and download, errors and crashes |
| `SnapshotStore` | abstract specification: a catalog of immutable snapshots |
| `RepositoryImplements` | refinement mapping from `Repository` to `SnapshotStore` |
| `RollbackGate` | the whole of `POST /backups/:id/rollback`: refusals, gate and limit, the steps of `rollback_to`, the upload, the statuses |
| `SyncClient` | `sync_collection` and `upload_collection` against AnkiWeb |
| `Scheduler` | when the cycles of `scheduler_loop` begin |
| `Daemon` | scheduler, rollbacks, AnkiWeb and other Anki clients together, over many hours |
| `BackupRows` | times as RFC 3339 text and as microseconds, the conversions between entries and rows |
| `MetadataStore` | abstract specification: what the trait `MetadataStore` promises |
| `Stores` | `SqliteStore` and `PostgresStore`, with the refinement mapping to `MetadataStore` |
| `MC...` | model values and symmetry sets for TLC |
| `RollbackPointerProofs`, `RepositoryProofs`, `DurabilityProofs`, `RollbackGateProofs`, `SyncClientProofs`, `SchedulerProofs`, `StoreProofs`, `DaemonProofs` | theorems |

### PointerFile and RollbackPointer

`tmp` and `dst` are the contents of the two files: absent, empty, garbled, or
the id of a backup. `fd[w]` says where the file that writer `w` has open can be
reached now: under the temporary name, under the final name, or not at all.
`rename` moves descriptors along with the file, so a late write can land in the
published pointer. `fs::write` is two steps, `OpenTmp` (`O_TRUNC`) and
`FillTmp`. Writing over bytes of another pointer may leave a mixture
(`Garbled`): documents differ in length, because `updated_at` is printed with 0,
3, 6 or 9 decimals.

`RollbackPointer` adds the callers. Writers in `Rollbacks` are requests of one
daemon and exclude each other through `rollback_gate`; the others are calls of
`run_once`. `Record` is `insert_rollback_event`, which may fail; `Die` is an I/O
error or the end of the process at any point. `mixed` remembers whether a call
of `run_once` has had the temporary file open together with another writer,
which no lock prevents.

### Repository

`backend` is the configured store, of those in `Backends`.
A task is a scheduler, a `run-once` process or a request. `pc[a]` is the
statement it is at, `entry[a]` the `BackupEntry` it holds.

| Code | Actions |
|---|---|
| `run_once` | `BeginRun`, `FindUnchanged` / `FindChanged`, `InsertSkipped`; `MakeDir`, `CreatePayload`, `FillPayload`, `StatsOk` / `StatsError`, `InsertCreated`, `WriteManifest`, `DirectoryGone` |
| `write_current_pointer` | `OpenPointer`, `FillPointer`, `RenamePointer` / `RenamePointerError` |
| `prune_created_older_than_days` | `PruneNothing`; SQLite: `SelectDoomed`, `DeleteRow`, `DeletesDone`; Postgres: `DeleteReturning`; `CheckDir`, `UnlinkDir` / `UnlinkError`, `PruneDone` |
| `rollback_backup`, `rollback_to` | `Rollback`, the pointer actions, `RecordEvent`, `ReadPayload` / `ReadError` |
| `download_backup` | `Download`, `ReadPayload` / `ReadError` |
| `scheduler_loop` | the order of these: `EndRun` goes on to `prune` after Ok and after Err |
| errors, cancellation, crashes | `RunFails` (the scheduler logs the error and prunes), `Crash` |

Abstractions:

- A collection is a model value and stands for its SHA-256 hash as well.
  `Malformed` collections are those that `extract_stats` cannot read; a torn file
  may or may not be readable (`StatsOk`, `StatsError`).
- `clock` counts ticks, `TicksPerSecond` of them to the second that names a
  directory. It only moves forward. The cutoff of a pruning is computed in the
  same step as the query that uses it.
- A directory holds nothing, no payload, an empty or a torn payload, or a
  collection. A payload write is two steps, like that of the pointer. Its file
  is identified with its directory, so a write into a directory that has been
  removed is lost.
- `remove_dir_all` is one step. A removal that stops half way is a fault after
  which the row is gone already, so nothing looks the directory up.
- A sync is the collection it returned; a failed one is no step, since the
  scheduler then neither runs nor prunes.
- Requests refused before they change anything (unknown id, skipped entry, rate
  limit, missing token) are no steps here; `RollbackGate` has them.
- `SharedSeconds = FALSE` is an assumption about the environment: no two runs
  start in the same second. The code does not enforce it between processes; the
  run `same_second` shows what happens without it. One scheduler keeps it by
  itself, because it sleeps at least a second between runs.
- `Crash(a)` ends one task; the end of a process with several tasks is several
  crashes, which the proofs cover (`MaxFaults` is arbitrary there).

`recorded`, `stamp` and `served` here, `installed`, `quiet` and `mixed` in
`RollbackPointer` are history variables: no modelled statement reads them, except
that `MayStart` uses `stamp` to state the assumption above.

### RollbackGate

One daemon, and connections that ask for rollbacks again and again.

| Code (`rollback_backup`) | Actions |
|---|---|
| token and CSRF checks | `Refuse` |
| `rollback_gate.lock()`, a fair mutex | `Ask` (joins `queue`), `Enter` |
| limit of ten seconds, parsing of the id | the three disjuncts of `Enter` |
| `rollback_to` | `RollbackFails`, `SwapPointer`, `RecordFails`, `Record` |
| upload | `ApplyUpload` (AnkiWeb), `UploadOk`, `UploadFails` |
| time stored in the gate, answer | `Finish`, `Answer` |
| connection closed, restart | `Drop`, `Restart` |
| outside of the gate: `run_once` writes the pointer, an abandoned upload is applied, another Anki client syncs | `RunPoints`, `ApplyLate`, `Edit` |

Pointer and AnkiWeb are known by the backup that a rollback has put there, or are
`Other`: a backup that `run_once` has made, a collection of another client.
`age` is `Utc::now()` minus the time in the gate, in ticks: this is all the code
looks at, and it lets time run for ever in a finite model. A waiter that is
dropped leaves the queue of the mutex (`Leave`); a holder that is dropped gives
the gate back. `NumSeconds` cuts off towards zero, as chrono does, so that a clock
that was set back (`SetBack`) gives negative differences. `late` are uploads whose
client has gone and which AnkiWeb may still apply. `sync_config` is chosen at the
start. How the pointer is written is left to `RollbackPointer`. `since` and
`settled` are history variables. `done` is what a request has changed; the
handler's own steps do not look at it, but whether AnkiWeb has taken an upload
(`"web"` in `done`) decides if it can answer that it did.

### SyncClient

`call[c]` is the local state of a call: the method it is at, the endpoint, whether
the POST is the one after a redirect, session, host key, payload, number of
POSTs. `sync_request` is `Send`, `FollowRedirect`, `NotSuccess` and the decoding of
the body (`Decode`: zstd by its magic number, other bytes as they are); the two
calls are `LoggedIn`, `MetaAnswered`, `BadAnswer`, `Downloaded`, `Uploaded`. A
timeout or a broken connection is `GiveUp`. AnkiWeb (`Serve`) answers any pending
request in any way the client tells apart, also after the client has gone, and
may lose the answer. It is assumed to reject requests without a host key it has
given, not to apply an upload that it redirects or refuses, and to answer a
download with the collection it has, with damaged bytes, or with a page that is
no collection. Such a page, if it comes with 2xx and without the magic number, is
what `sync_collection` returns (`Downloaded`); the history variable `pages` holds
the sessions this has happened to. `MagicAssumption` says that a collection, an SQLite file, does
not start with the magic number of zstd: `Decode` would take it for a compressed
one.

### Scheduler

The arithmetic of `scheduler_loop` on a clock of ticks: the sleep is counted in
whole seconds (`SecsToNextHour`, at least 1), ends at most `MaxLag` late, and a
cycle takes at most `MaxCycle`. The assumption that these and a second fit into an
hour is justified by `SixPosts`: six requests of 300 s are half an hour.

### Daemon

The long run: `Wake`, `SyncOk` / `SyncPage` / `SyncFails`, `Compare`, `Create` /
`StatsError`, `Point`, `Prune` and their failures for the scheduler; `Ask`, `Swap`,
`Read` / `ReadError`, `Push` / `RollbackFails` for a rollback; `ApplyLate` for an
upload that AnkiWeb applies after its client has gone, `Edit` for another Anki
client, `Restart`. A backup is its collection and its age in hours, counted up to
the retention period, so the hours go on for ever. Steps that `Repository` takes
apart are one step here.

- `SyncPage` is a sync that returned a page in place of the collection. What
  `extract_stats` cannot read, such a page or a collection of AnkiWeb's, is
  `Malformed` and ends in `StatsError` every time it comes; it is no fault and has
  no bound.
- `place` is where the row of the backup that a request has looked up is in
  `rows`. `Prune` moves it along, or sets it to 0 when the backup is removed; the
  file is then gone although another backup may have the same collection
  (`ReadError`).
- `late[c]` counts the uploads of `c` that ended without an answer, by an error, a
  closed connection or a restart, and that AnkiWeb may still apply.
- `rows` is in the order of insertion, so the expired backups are in front, and
  `Prune` cuts that many off (`ExpiredCount`); that these are exactly the expired
  ones is a theorem, `PruneExact`.
- `adrift` is a history variable: the last rollback or run failed after its first
  effect, or an abandoned upload was applied after it and left the pointer behind.

### BackupRows, MetadataStore, Stores

A time is a number of seconds and nine decimals in three groups of 0 to 999.
`Rfc3339` prints 0, 3, 6 or 9 decimals as chrono's `to_rfc3339` does; the part up to
the second and each group have a fixed width, so each is one number, and `+` and
`.` are numbers below them: `'+' < '.' < digits`. `TextLess` is the
comparison of SQLite, `Micros` what Postgres keeps. Entries become rows and rows
entries through the string forms of status and skip reason.

`Stores` has one action per statement: `InsertEntry`, `ListBackups`, `GetBackup`,
`LastCreatedHash`; for SQLite `SelectDoomed`, `DeleteRow`, `DeleteFails`, between
which other operations come (each opens its own connection on a blocking
thread); for Postgres `DeleteReturning`. `ORDER BY` may return rows of equal time
in any order. `MetadataStore` says what callers rely on in terms of times:
answers are entries as they were inserted, newest first, the last hash is that
of a newest created entry, pruning deletes created entries that are older than
the cutoff and no others.

## 3. What the runs show

| Run (cfg) | Instance | Shows |
|---|---|---|
| `pointers` (`MCRollbackPointer`) | 2 rollback requests and a run, 2 backups | Until `run_once` meets a rollback at the temporary file, swaps are atomic and the audit trail is true: `WholeUnlessMixed`, `SwapInstallsTarget`, `EventsWereInstalled`. After that the pointer still never disappears, and the next write nobody overlaps repairs it: `PointerNeverLost`, `QuietWriteHeals` |
| `pointer_torn` (`MCPointerTorn`) | 1 request and a run | **violation** of `PointerWhole` |
| `sole_daemon` (`MCRepositorySole`) | 1 scheduler, 3 collections (1 malformed), SQLite, retention 2, 5 ticks, 1 fault | `PointerCurrent`, `NoOrphans`, `ChangeAware`, `SkipJustified` |
| `daemon_with_requests` (`MCRepositoryServed`) | 1 scheduler, 1 request, 2 collections, retention 1, 1 fault | `BackupsDurable`, `ServedFaithful`, `PointerNamesRecorded`, refinement of `SnapshotStore` |
| `two_daemons` (`MCRepositoryDaemons`) | 2 schedulers, SQLite or Postgres, 2 collections (1 malformed), 1 fault | concurrent pruning loses nothing early (`BackupsDurable`, `OnlyExpiredPruned`); with Postgres it leaves nothing behind (`NoOrphans`) |
| `same_second` (`MCRepositorySecond`) | scheduler and `run-once` in one second | **violation** of `BackupsDurable` |
| `overlapping_runs` (`MCRepositoryOverlap`) | scheduler and `run-once` | **violation** of `ChangeAware` |
| `rollback_requests` (`MCRollbackGate`) | 2 connections, 2 backups, with or without credentials, half-second ticks | `StatusTruthful`: each status says what has been done; `WebFollowsPointer`: after a 200 AnkiWeb and the pointer differ only by what comes past the gate; `OksSpaced`: the limit between successes, also when the clock is set back; `NoneStranded`: the gate is held only from behind it, and who waits is in the queue, once; `RequestsEnd`: no path keeps the gate |
| `sync_calls` (`MCSyncClient`) | 2 calls in a row, an endpoint and its shard, 2 collections, 1 edit | `DownloadGenuine`: what is returned was on AnkiWeb during the call, or is a page sent with 2xx for this very download; `UploadApplied`, `AppliedOnce`, `TransferInSession`, `SixPosts`, `CallsReturn` |
| `schedule` (`MCScheduler`) | an hour of 2 minutes of 3 seconds of 2 ticks, 4 hours | `OnTheHour`, `OncePerHour` |
| `daemon_long_run` (`MCDaemon`) | 3 collections and a malformed one, retention 1 hour, 2 rollbacks, 1 fault, unboundedly many hours | `PointerAgrees`: when nothing is half done or came late and the newest backup is what AnkiWeb has, the pointer names it; `CurrentBackedUp`, `ExpiredPruned`; `PointerConverges`: if AnkiWeb's collection stays, the pointer ends up there whatever failed before |
| `stores` (`MCStores`) | both stores, 6 times with 0, 3, 6 and 9 decimals, 2 rows | `ImplementsMetadataStore`, `NonePrunedEarly` |

The three violations are disagreements between the documents and the code:

- *Torn pointer.* A rollback has filled the temporary file; a run opens the same
  name and truncates it; the rollback renames the empty file to
  `current-pointer.json`. With the two exchanged it is the same.
  `docs/ARCHITECTURE.md` calls the swap atomic.
- *Shared second.* Two runs of one second share a directory. The second payload
  replaces the first under the first one's row.
- *Overlapping runs.* Both read `last_created_hash` before either inserts, and
  the same collection is stored twice. The implementation instructions ask for
  a global lock; there is none.

Five more were met while modelling and have no run of their own. The models do
what the code does:

- `rollback_backup` uploads whenever there are credentials (`Record`), while
  `docs/ROLLBACK.md` says that by default a rollback does not push to AnkiWeb.
- The gate takes the time in `Finish` only: a rollback that swapped the pointer
  and then failed does not count for the limit that `docs/ROLLBACK.md` gives.
- A cycle whose sync fails ends without pruning (`SyncFails`); `README.md` lists
  pruning for each cycle. `ExpiredPruned` therefore needs syncs that succeed.
- The meta response has a field `should_continue`, which `sync_collection` parses
  and never looks at. The model leaves the field out.
- `sync_request` accepts any body with 2xx. A page in place of the collection is
  returned by `sync_collection` (`Downloaded`, allowed by `DownloadGenuine`) and
  reaches `run_once`, which writes it to a new directory before `extract_stats`
  rejects it (`SyncPage`, `StatsError`).

**Bounds.** Two backups are enough to tell a wrong pointer from an old one. For
pruning, a backup must be created, expire, and be pruned while another one is
being created: retention 1 within 3 ticks does this once, retention 2 within 5
ticks repeatedly. `MaxEntries` bounds the rows, `MaxFaults = 1` puts one fault at
every step. In `rollback_requests` the limit is one second of two ticks: the
smallest that has a fraction to cut off. In `sync_calls` the second call is the
one that a late answer to the first could be taken for. Calls share no state in
the client; what a second caller would do to AnkiWeb's collection meanwhile is
represented by one edit and by the late uploads of the first call. In
`daemon_long_run` edits are unbounded; they only need a collection that nobody
holds, which the third one provides. Its one fault can be the upload that is
applied late; the run passes with two faults as well, in 630,000 states.

**Deadlock** is not checked in the runs of `Repository`, `SyncClient` and
`Scheduler`: with the clock or the calls bounded, nothing is left to do in the end.
It is checked in all others.

**Fairness.** `rollback_requests`: a handler that can go on does (weak fairness of
`Handle`), because the runtime polls it, disk and database answer, and the HTTP
client's timeout ends each request of the upload. `sync_calls`: weak fairness of
the client's steps, of which the timeout is one. Nothing is assumed of AnkiWeb
in both. `daemon_long_run`: weak fairness of the loop and of the handler, and
strong fairness of `SyncOk`: AnkiWeb is not down, and does not send pages in place
of the collection, for ever. This is an assumption
about the environment, without which there is nothing to back up.

**Limits of some properties.** `NoOrphans` and `PointerCurrent` are stated for
behaviours without faults. After a fault the code really leaves directories that
nothing finds again, and a pointer that stays behind, because the next run is
skipped as unchanged. `PointerConverges` says for how long: until the collection
changes, or until the backup that runs compare with is pruned, after which the
next run makes a new one and writes the pointer. It therefore needs a retention
period; without one the pointer may stay behind for ever. A malformed collection
leaves a directory with every run, also without faults; `NoOrphans` excepts it.
It also leaves out two schedulers on SQLite: their lists may overlap, and the one
that loses the race for a directory gives up the rest of its list.

`WebFollowsPointer` and `PointerAgrees` leave out uploads that were abandoned before
the last swap and that AnkiWeb applies after it, which nothing in the client can
prevent; `PointerConverges` includes them. `WebFollowsPointer` compares only what
rollbacks have put in both places: a run or another client may change either at
any time, and what then becomes of the pointer is the subject of `Daemon`.

## 4. What is proved

All theorems hold for arbitrary sets of tasks and collections, any retention
period and any bounds. Assumptions on constants are the named `ASSUME`s of the
modules (disjoint kinds of tasks, collections different from the markers for
missing files, bounds in `Nat`, a cycle that fits into an hour, times that are
instants, collections that do not look compressed).

**RollbackPointerProofs**

- `NeverLost`: `Spec => PointerNeverLost`. The invariant (`Sound`) is the types
  and that a writer at work has a backup to point to, so that what it writes is
  never taken for an absent file.
- `QuietHeals`: `Spec => []QuietWriteHeals`. `QuietWriteHeals` says nothing
  about a writer between open and write; the invariant adds that a quiet writer
  is alone in the file and that it finds it empty when it writes.
- `TypeCorrect`, `GatedWhole`, `GatedEvents`, `GatedTargets`: `TypeOK`,
  `WholeUnlessMixed`, `EventsWereInstalled` and `SwapInstallsTarget`, for any
  number of rollbacks and runs. `MixedInv`: of two rollbacks one is idle
  (`Gated`), and while nothing has mixed, the temporary file has at most one
  user, who finds it as it left it (`AloneInv`). A writer that opens the file
  while another has it mixes, unless both are rollbacks, which `Gated` excludes.
  Together with the violation `pointer_torn` this says exactly what is missing:
  exclusion between `run_once` and rollbacks.

**RepositoryProofs** (no assumption about seconds; any overlap)

- `TypeCorrect`, `PointerSound` (`[]PointerNamesRecorded`) and `PruneSound`
  (`OnlyExpiredPruned`). `BaseInv` ties the parts together: ids are unique and
  a created row stays until it expires (`LedgerInv`); the entry of a run is a
  draft before the INSERT and a recorded backup after it (`WorkInv`); rows about
  to be removed are expired backups (`DoomedInv`); both pointer files name
  recorded backups if they name any (`PointerInv`). `PointerNamesRecorded` alone
  is not inductive, because the id passes through the task's entry and the
  temporary file first.

**DurabilityProofs** (assuming `~SharedSeconds`)

- `Durability` and `Serving`: `[]BackupsDurable` and `[]ServedFaithful`. The key is ownership
  (`OwnerInv`): a directory belongs to at most one draft or backup, because the
  second a run starts in is later than that of every run before it. So nobody
  else writes into the directory between the steps of a run (`ContentInv`), and
  pruning, which removes directories of expired rows only, cannot hit another
  backup.
- `Refinement`: `Spec => ImplementsSnapshotStore`. Under the invariant the
  catalog is what was hashed. `InsertCreated` maps to `Publish`, a DELETE to
  `Retire`, the clock to `Advance`, everything else to a stutter.
- `Tidiness`: `[]NoOrphans`, for one scheduler on SQLite and any number on Postgres.
  `NoOrphans` is not inductive: a row is deleted before its directory, so one has to
  know that a backup without a row is on a list until its directory is gone
  (`ListedInv`), that no list is dropped half way because another scheduler came
  first (`ApartInv`), that lists live only while their loop runs (`ListsInv`), and
  that a run which ends without a row found no directory of its name (`FreshInv`).
- `ChangeAwareness` and `SkipsJustified`: `ChangeAware` and `SkipJustified`, if moreover
  one task makes the backups (`SoleRunner`); requests, faults and pruning may go on.
  Both are about the INSERT, and the code decides at `last_created_hash`, several
  steps earlier. `SoleInv` carries the decision across: a run is later than every
  backup there is, and what it found out about the newest one still holds, since
  no one else inserts and a runner does not prune during its run.
  `overlapping_runs` shows that `SoleRunner` cannot be dropped.
- `PointerIsCurrent`: `[]PointerCurrent`, if there are also no requests (a rollback
  points elsewhere on purpose). `CurrentInv` follows the id through the temporary
  file and shows that none of the error exits of a run after its INSERT is reached.

**RollbackGateProofs** (any connections, backups, limit, resolution, correction)

- `StatusesTruthful`, `WebFollows`, `OksAreSpaced`. `Inv` adds to the properties that
  only the holder of the gate is past `Enter` (`Exclusive`), what a request has
  done at each point and that the pointer is at its target unless `run_once` has
  moved it (`Progress`), that between swap and answer no other upload comes, so that
  AnkiWeb has the target or another client's collection (`Settling`), and that real
  time since the last success is at least the time the clock shows (`Spacing`),
  which makes the limit hold when the clock is set back.
- `GateTypes` and `NobodyStranded`: `[]TypeOK` and `[]NoneStranded`. `NoneStranded` is
  inductive with `Inv` and the types; the proof first sorts the steps into those that
  join the queue, leave it (`Enter`, `Leave`), move behind the gate (`Moves`), and
  clear everything (`Restart`). It is the safety half of `RequestsEnd`: nobody waits
  for a gate that no handler will give back, or outside of its queue.

**SyncClientProofs** (any callers, calls, endpoints, collections and edits)

- `TypeCorrect`, `ReturnsAreGenuine`, `UploadsAreApplied`, `UploadsAreAppliedOnce`,
  `TransfersAreInSession`, `AtMostSixPosts`: the six invariants of `sync_calls`, there
  for one caller, here for any number of them at the same time.
- The core of `Inv` is who may get which answer. A call has a session of its own
  (`Numbered`), and of the requests of that session only the last is awaited
  (`LastAwaited`): so an answer that arrives belongs to the method, endpoint, keys
  and payload the call is at (lemma `Reached`), and the late answer to a request
  that was given up reaches nobody. From this follow what a 2xx means for the call
  (`MetaServed`; `HeldInv`: the bytes of a download are a collection of that time, or a
  page sent in this session), and that at most one upload of a session is pending or
  applied and none while a redirect of it is to be followed (`OneUpload`), from
  which `AppliedOnce`, not inductive itself, follows. `Budget` counts the requests by method:
  1, 3 and 5 before a redirect, one more after it.

**SchedulerProofs** (any length of second, minute and hour)

- `RunsOnTheHour` and `RunsOncePerHour`: the sleep ends in the first second of the
  next hour, because cutting off the fraction makes it too long by less than a
  second and never too short; and a cycle ends before the next hour.

**StoreProofs** (all times, ids and hashes)

- `TextOrder`: the text of one time is less than that of another exactly if the
  time is, with 0, 3, 6 or 9 decimals on either side. The proof compares the
  texts at their first difference, group by group.
- `RoundTrip`: `parse_ts` gives back the time that was written.
- `NoneEarly`: `Spec => NonePrunedEarly` for both stores. `Kept`: a row's column is
  its time as the store keeps it, and rows selected for deletion are still there
  and old. `TextOrder` closes it for SQLite; for Postgres, that a time which is
  before another without their nanoseconds is also before it with them.
- `StoresImplementMetadataStore`: `Spec => ImplementsMetadataStore`, step by step. A
  row is the image of an entry that was inserted, with an id of its own (`RowsInv`), and
  reading it back gives an entry of the same id, hash and status, at the time the
  store has kept (`Agree`). So the order by column is the order by time (`RowOrder`,
  from `TextOrder`), a listing of the rows is one of the entries and misses none
  (`ListsAll`, by counting), the newest row is a newest entry, and every DELETE removes
  entries older than the cutoff. An error half way through the deletes of SQLite
  maps to a stutter.

**DaemonProofs** (any collections, retention, rollbacks and faults)

- `DaemonTypes`: `[]TypeOK`.
- `PointersAgree`: `[]PointerAgrees`. `PointerAgrees` says nothing while a rollback or a run
  is under way; `LastWriter` adds that a rollback between swap and upload has left the
  pointer at its target or a run has overwritten it with the newest backup, for any
  number of abandoned uploads that are applied at any time, and
  `RowIsNewest` that a run about to write the pointer has made the newest row.
- `PruneExact`: pruning removes the expired rows and no others, since the rows are
  oldest first (`OldestFirst`); the boundary is the least row that has not expired.

**Model-checked only**: liveness (`RequestsEnd`, `CallsReturn`, `CurrentBackedUp`,
`ExpiredPruned`, `PointerConverges`), which needs fairness and `ENABLED` and is
outside of what the prover handles. Every invariant, action property and
refinement that a passing run checks is a theorem. Where one of them has hypotheses
beyond those of the modules (`~SharedSeconds`, `SoleRunner`, `Handlers = {}`), the runs
that check it satisfy them, and `same_second` and `overlapping_runs` show what
happens without the first two.

## 5. Not modelled

- List, detail and health handlers and templates: one query of `MetadataStore` and
  formatting.
- The comparison of API and CSRF tokens; only the refusals are steps.
- The numbers and deck names of `extract_stats`: they are stored and shown, and
  nothing depends on them. That it fails on a malformed collection is modelled.
- Flags, environment and configuration file: read once at the start, before
  anything runs. An unusable `retention_days` (the cutoff overflows) panics in the
  scheduler task, and the server goes on without it; the models take the period
  to be usable.
- Database migrations, the archive of a download, the JSON of the manifest.
- A wall clock that is set forward; one that is set back, except in
  `RollbackGate`.
- Packaging and deployment.

## 6. Plan

`Stats` and `Config`: deck names of both schemas, precedence of settings, as pure
operators.
