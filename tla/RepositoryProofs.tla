---------------------------- MODULE RepositoryProofs ---------------------------
(***************************************************************************)
(* Proofs about Repository, for any tasks, collections, retention period   *)
(* and bounds.                                                             *)
(***************************************************************************)
EXTENDS RepositoryImplements, TLAPS

DraftLocations == {"check", "skip", "mkdir", "create", "fill", "stats", "insert"}
PostLocations == {"manifest", "ptrOpen", "ptrFill", "ptrRename"}

\* The rows: ids are unique, what was inserted as created has a directory and
\* keeps its row until its retention period is over.
LedgerInv ==
    /\ rows \subseteq recorded
    /\ \A r \in recorded : r.id \in 1 .. nextId - 1
    /\ \A r, q \in recorded : r.id = q.id => r = q
    /\ \A r \in Created(recorded) :
        /\ r.timestamp_dir \in Dirs
        /\ r.content_hash \in Contents
        /\ r.created_at <= clock
        /\ r \in rows \/ PastRetention(r)

\* The entry a task works on: a draft until the INSERT, a recorded backup from
\* there on and in every handler.
WorkInv ==
    /\ \A w \in Runners :
        /\ pc[w] \in {"idle"} \cup DraftLocations \cup PostLocations \cup PruneLocations
        /\ pc[w] \in DraftLocations =>
            /\ entry[w].timestamp_dir \in Dirs
            /\ entry[w].content_hash \in Contents
            /\ entry[w].created_at <= clock
        /\ pc[w] \in PostLocations => entry[w] \in Created(recorded)
    /\ \A w \in OneShots : pc[w] \notin PruneLocations
    /\ \A h \in Handlers :
        /\ pc[h] \in {"idle"} \cup HandlerLocations
        /\ pc[h] # "idle" \/ served[h] # NotServed => entry[h] \in Created(recorded)

\* The rows a scheduler is about to remove the directories of.
DoomedInv ==
    \A w \in Schedulers :
        /\ \A r \in doomed[w] : r \in Created(recorded) /\ PastRetention(r)
        /\ pc[w] \in {"rmdir", "unlink"} => doomed[w] \cap rows = {}
        /\ pc[w] = "unlink" => entry[w] \in doomed[w]

\* Both pointer files name recorded backups, if any.
PointerInv ==
    \A p \in {tmp, dst} :
        p \in {Absent, Empty, Garbled} \/ \E r \in Created(recorded) : r.id = p

BaseInv == TypeOK /\ LedgerInv /\ WorkInv /\ DoomedInv /\ PointerInv

-----------------------------------------------------------------------------
(***************************************************************************)
(* Type correctness.                                                       *)
(***************************************************************************)

\* Directories are numbered by the second they are named after.
LEMMA DirsAreNat == Dirs \subseteq Nat
BY BoundsAssumption DEF Dirs, SecondOf

\* The second in which a run starts is the name of a directory.
LEMMA SecondIsDir ==
    ASSUME clock \in 0 .. MaxTime
    PROVE  SecondOf(clock) \in Dirs /\ SecondOf(clock) \in Int
<1>1. \A t \in 0 .. MaxTime : SecondOf(t) \in Dirs
    BY DEF Dirs
<1>2. SecondOf(clock) \in Dirs
    BY <1>1, Zenon
<1>3. SecondOf(clock) \in Nat
    BY <1>2, DirsAreNat, Zenon
<1> QED
    BY <1>2, <1>3

\* The row that an INSERT adds.
LEMMA NewRow ==
    ASSUME NEW e \in Entries, nextId \in Nat, NEW st \in Statuses,
           NEW d \in Dirs \cup {RootDir}
    PROVE  /\ BackupEntry(e, st, d) \in Entries
           /\ BackupEntry(e, st, d).id = nextId
           /\ BackupEntry(e, st, d).status = st
           /\ BackupEntry(e, st, d).created_at = e.created_at
           /\ BackupEntry(e, st, d).timestamp_dir = d
           /\ BackupEntry(e, st, d).content_hash = e.content_hash
BY DEF Entries, BackupEntry

\* The placeholder of a task without an entry is well typed.
LEMMA NoEntryIsEntry == NoEntry \in Entries
BY DEF NoEntry, Entries, Statuses

\* The steps of run_once keep the types.
LEMMA RunOnceType ==
    ASSUME BaseInv, NEW w \in Runners, RunOnce(w)
    PROVE  TypeOK'
<1> USE ContentsAssumption, ActorsAssumption
    DEF BaseInv, TypeOK, WorkInv, PointerTypeOK, database, files, pointerVars, history, Goto,
        EndRun, Actors, Runners, Locations, RunLocations, PruneLocations,
        Statuses
<1>0. nextId \in Nat /\ entry[w] \in Entries /\ NoEntry \in Entries
    BY BoundsAssumption, NoEntryIsEntry
<1>1. ASSUME NEW c \in Contents, BeginRun(w, c) PROVE TypeOK'
  <2>1. SecondOf(clock) \in Dirs /\ SecondOf(clock) \in Int
      BY SecondIsDir
  <2>2. [id |-> 0, created_at |-> clock, timestamp_dir |-> SecondOf(clock),
         content_hash |-> c, status |-> "draft"] \in Entries
      BY <2>1, BoundsAssumption DEF Entries
  <2> QED
      BY <1>1, <2>1, <2>2 DEF BeginRun
<1>2. CASE FindUnchanged(w)
    BY <1>2 DEF FindUnchanged
<1>3. CASE FindChanged(w)
    BY <1>3 DEF FindChanged
<1>4. CASE InsertSkipped(w)
  <2>1. BackupEntry(entry[w], "skipped", RootDir) \in Entries
      BY NewRow, <1>0
  <2>2. nextId' \in 1 .. MaxEntries + 1
      BY <1>4, BoundsAssumption DEF InsertSkipped, Insert
  <2> QED
      BY <1>0, <1>4, <2>1, <2>2 DEF InsertSkipped, Insert
<1>5. CASE MakeDir(w)
    BY <1>5 DEF MakeDir
<1>6. CASE CreatePayload(w)
    BY <1>6 DEF CreatePayload
<1>7. CASE FillPayload(w)
  <2>1. WrittenOver(payload[entry[w].timestamp_dir], entry[w].content_hash)
            \subseteq Contents \cup {NoDir, NoFile, EmptyFile, TornFile}
    <3>1. entry[w].content_hash \in Contents
        BY <1>7 DEF FillPayload, DraftLocations
    <3> QED
        BY <3>1 DEF WrittenOver
  <2>2. payload' \in [Dirs -> Contents \cup {NoDir, NoFile, EmptyFile, TornFile}]
    <3>1. PICK new \in WrittenOver(payload[entry[w].timestamp_dir], entry[w].content_hash) :
                payload' = [payload EXCEPT ![entry[w].timestamp_dir] = new]
        BY <1>7 DEF FillPayload
    <3>2. new \in Contents \cup {NoDir, NoFile, EmptyFile, TornFile}
        BY <2>1, <3>1, Zenon
    <3> QED
        BY <3>1, <3>2
  <2> QED
      BY <1>7, <2>2 DEF FillPayload
<1>8. CASE StatsOk(w)
    BY <1>8 DEF StatsOk
<1>9. CASE StatsError(w)
    BY <1>0, <1>9 DEF StatsError
<1>10. CASE InsertCreated(w)
  <2>1. BackupEntry(entry[w], "created", entry[w].timestamp_dir) \in Entries
      BY NewRow, <1>0 DEF Entries
  <2>2. nextId' \in 1 .. MaxEntries + 1
      BY <1>10, BoundsAssumption DEF InsertCreated, Insert
  <2> QED
      BY <1>10, <2>1, <2>2 DEF InsertCreated, Insert
<1>11. CASE WriteManifest(w)
    BY <1>0, <1>11 DEF WriteManifest, Entries
<1>12. CASE DirectoryGone(w)
    BY <1>0, <1>12 DEF DirectoryGone
<1> QED
    BY <1>1, <1>2, <1>3, <1>4, <1>5, <1>6, <1>7, <1>8, <1>9, <1>10, <1>11, <1>12
    DEF RunOnce

\* The steps of write_current_pointer keep the types.
LEMMA WritePointerType ==
    ASSUME BaseInv, NEW a \in Actors, WritePointer(a)
    PROVE  TypeOK'
<1> USE ActorsAssumption
    DEF BaseInv, TypeOK, PointerTypeOK, PointerContents, Descriptors, database,
        files, pointerVars, history, Goto, EndRun, Locations, RunLocations,
        PruneLocations, HandlerLocations, Absent, Empty, Garbled
<1>0. entry[a].id \in Nat /\ NoEntry \in Entries
    BY NoEntryIsEntry DEF Entries
<1>1. CASE OpenPointer(a)
    BY <1>1 DEF OpenPointer, OpenTmp
<1>2. CASE FillPointer(a)
    BY <1>0, <1>2 DEF FillPointer, FillTmp, Overwrite
<1>3. CASE RenamePointer(a)
    BY <1>0, <1>3 DEF RenamePointer, RenameTmp
<1>4. CASE RenamePointerError(a)
    BY <1>0, <1>4 DEF RenamePointerError, RenameFails
<1> QED
    BY <1>1, <1>2, <1>3, <1>4 DEF WritePointer

\* The steps of pruning keep the types.
LEMMA PruneType ==
    ASSUME BaseInv, NEW w \in Schedulers, Prune(w)
    PROVE  TypeOK'
<1> USE DEF BaseInv, TypeOK, PointerTypeOK, database, files, pointerVars,
            history, Goto, Actors, Runners, Locations, PruneLocations
<1>0. NoEntry \in Entries /\ Expired \subseteq Entries
    BY NoEntryIsEntry DEF Expired, Created
<1>1. CASE PruneNothing(w)
    BY <1>1 DEF PruneNothing
<1>2. CASE SelectDoomed(w)
    BY <1>0, <1>2 DEF SelectDoomed
<1>3. CASE DeleteRow(w)
    BY <1>3 DEF DeleteRow
<1>4. CASE DeletesDone(w)
    BY <1>4 DEF DeletesDone
<1>5. CASE DeleteReturning(w)
    BY <1>0, <1>5 DEF DeleteReturning
<1>6. CASE CheckDir(w)
    BY <1>6 DEF CheckDir
<1>7. CASE UnlinkDir(w)
    BY <1>0, <1>7 DEF UnlinkDir, RemoveDir
<1>8. CASE UnlinkError(w)
    BY <1>0, <1>8 DEF UnlinkError
<1>9. CASE PruneDone(w)
    BY <1>9 DEF PruneDone
<1> QED
    BY <1>1, <1>2, <1>3, <1>4, <1>5, <1>6, <1>7, <1>8, <1>9 DEF Prune

\* The steps of the request handlers keep the types.
LEMMA HandleType ==
    ASSUME BaseInv, NEW h \in Handlers, Handle(h)
    PROVE  TypeOK'
<1> USE DEF BaseInv, TypeOK, PointerTypeOK, database, files, pointerVars,
            history, Goto, Actors, Locations, HandlerLocations
<1>0. entry[h].id \in Nat /\ Created(rows) \subseteq Entries
    BY DEF Entries, Created
<1>1. CASE Rollback(h)
    BY <1>0, <1>1 DEF Rollback, Lookup
<1>2. CASE RecordEvent(h)
    BY <1>0, <1>2 DEF RecordEvent
<1>3. CASE Download(h)
    BY <1>0, <1>3 DEF Download, Lookup
<1>4. CASE ReadPayload(h)
  <2>1. entry[h].timestamp_dir \in Dirs
      BY <1>4 DEF ReadPayload, WorkInv, LedgerInv
  <2> QED
      BY <1>4, <2>1 DEF ReadPayload
<1>5. CASE ReadError(h)
    BY <1>5 DEF ReadError
<1> QED
    BY <1>1, <1>2, <1>3, <1>4, <1>5 DEF Handle

\* Errors and crashes keep the types.
LEMMA FaultType ==
    ASSUME BaseInv, NEW a \in Actors, NEW l \in Locations, Abandon(a, l)
    PROVE  TypeOK'
<1>1. NoEntry \in Entries
    BY NoEntryIsEntry
<1>2. faults' \in 0 .. MaxFaults
    BY BoundsAssumption DEF BaseInv, TypeOK, Abandon
<1> QED
    BY <1>1, <1>2, ActorsAssumption
    DEF BaseInv, TypeOK, Abandon, CloseDescriptor, PointerTypeOK, Descriptors,
        database, files, Goto

\* The clock keeps the types.
LEMMA TickType == BaseInv /\ Tick => TypeOK'
<1> SUFFICES ASSUME BaseInv, Tick PROVE TypeOK'
    OBVIOUS
<1>1. clock' \in 0 .. MaxTime
    BY BoundsAssumption DEF BaseInv, TypeOK, Tick
<1> QED
    BY <1>1 DEF BaseInv, TypeOK, PointerTypeOK, Tick, database, files,
                pointerVars, history

-----------------------------------------------------------------------------
(***************************************************************************)
(* The rows.                                                               *)
(***************************************************************************)

ledger == <<clock, rows, recorded, nextId>>

\* The steps that change the ledger.
LEMMA LedgerSteps ==
    ASSUME [Next]_vars
    PROVE  \/ \E w \in Runners : InsertSkipped(w) \/ InsertCreated(w)
           \/ \E w \in Schedulers : DeleteRow(w) \/ DeleteReturning(w)
           \/ Tick
           \/ UNCHANGED ledger
<1> USE DEF ledger, database
<1>1. ASSUME NEW w \in Runners, RunOnce(w)
      PROVE  InsertSkipped(w) \/ InsertCreated(w) \/ UNCHANGED ledger
    BY <1>1 DEF RunOnce, BeginRun, FindUnchanged, FindChanged, MakeDir,
                CreatePayload, FillPayload, StatsOk, StatsError, WriteManifest,
                DirectoryGone
<1>2. ASSUME NEW a \in Actors, WritePointer(a) PROVE UNCHANGED ledger
    BY <1>2 DEF WritePointer, OpenPointer, FillPointer, RenamePointer,
                RenamePointerError
<1>3. ASSUME NEW w \in Schedulers, Prune(w)
      PROVE  DeleteRow(w) \/ DeleteReturning(w) \/ UNCHANGED ledger
    BY <1>3 DEF Prune, PruneNothing, SelectDoomed, DeletesDone, CheckDir,
                UnlinkDir, UnlinkError, PruneDone
<1>4. ASSUME NEW h \in Handlers, Handle(h) PROVE UNCHANGED ledger
    BY <1>4 DEF Handle, Rollback, Download, Lookup, RecordEvent, ReadPayload,
                ReadError
<1>6. CASE UNCHANGED vars
    BY <1>6 DEF vars
<1>7. ASSUME NEW a \in Actors, Crash(a) PROVE UNCHANGED ledger
    BY <1>7 DEF Crash, Abandon
<1>8. ASSUME NEW w \in Schedulers, RunFails(w) PROVE UNCHANGED ledger
    BY <1>8 DEF RunFails, Abandon
<1> HIDE DEF ledger, database
<1> QED
    BY <1>1, <1>2, <1>3, <1>4, <1>6, <1>7, <1>8 DEF Next

\* History only grows, and what is past retention stays so.
LEMMA Monotone ==
    ASSUME BaseInv, [Next]_vars
    PROVE  /\ recorded \subseteq recorded'
           /\ Created(recorded) \subseteq Created(recorded)'
           /\ clock \in Nat /\ clock' \in Nat /\ clock <= clock'
           /\ nextId \in Nat
<1>1. clock \in Nat /\ nextId \in Nat
    BY BoundsAssumption DEF BaseInv, TypeOK
<1> USE DEF Created
<1>2. ASSUME NEW w \in Runners, InsertSkipped(w) \/ InsertCreated(w)
      PROVE  recorded \subseteq recorded' /\ clock' = clock
    BY <1>2 DEF InsertSkipped, InsertCreated, Insert
<1>3. ASSUME NEW w \in Schedulers, DeleteRow(w) \/ DeleteReturning(w)
      PROVE  recorded' = recorded /\ clock' = clock
    BY <1>3 DEF DeleteRow, DeleteReturning
<1>4. CASE Tick
    BY <1>1, <1>4 DEF Tick, database
<1>5. CASE UNCHANGED ledger
    BY <1>1, <1>5 DEF ledger
<1> QED
    BY <1>1, <1>2, <1>3, <1>4, <1>5, LedgerSteps

\* A backup that is past retention stays so.
LEMMA PastStable ==
    ASSUME BaseInv, [Next]_vars, NEW r \in Entries, PastRetention(r)
    PROVE  PastRetention(r)'
<1>1. r.created_at \in Nat /\ Retention \in Nat
    BY BoundsAssumption DEF Entries
<1> QED
    BY <1>1, Monotone DEF PastRetention

\* What pruning selects is past retention.
LEMMA ExpiredArePast ==
    ASSUME BaseInv, Retention > 0, NEW r \in Expired
    PROVE  r \in Created(rows) /\ r \in Created(recorded) /\ PastRetention(r)
<1>1. r.created_at \in Nat /\ Retention \in Nat /\ clock \in Nat
    BY BoundsAssumption DEF BaseInv, TypeOK, Entries, Expired, Created
<1> QED
    BY <1>1 DEF Expired, Created, PastRetention, BaseInv, LedgerInv

\* An INSERT of a row with the next id.
LEMMA InsertLedger ==
    ASSUME BaseInv, clock' = clock, NEW r \in Entries, Insert(r), r.id = nextId,
           r.status = "created" => /\ r.timestamp_dir \in Dirs
                                   /\ r.content_hash \in Contents
                                   /\ r.created_at <= clock
    PROVE  LedgerInv'
<1>1. nextId \in Nat /\ nextId >= 1 /\ nextId' = nextId + 1
  <2>1. nextId \in 1 .. MaxEntries + 1 /\ nextId' = nextId + 1
      BY Zenon DEF BaseInv, TypeOK, Insert
  <2>2. MaxEntries \in Nat
      BY BoundsAssumption
  <2> QED
      BY <2>1, <2>2
<1>2. \A q \in recorded : q.id \in 1 .. nextId - 1
    BY DEF BaseInv, LedgerInv
<1>3. (\A q \in recorded : q.id \in 1 .. nextId - 1)'
    BY <1>1, <1>2 DEF Insert
<1>4. (\A x, y \in recorded : x.id = y.id => x = y)'
    BY <1>1, <1>2 DEF Insert, BaseInv, LedgerInv
<1>5. (rows \subseteq recorded)'
    BY DEF Insert, BaseInv, LedgerInv
<1>6. ASSUME NEW q \in Created(recorded)'
      PROVE  /\ q.timestamp_dir \in Dirs
             /\ q.content_hash \in Contents
             /\ (q.created_at <= clock)'
             /\ (q \in rows \/ PastRetention(q))'
    BY <1>6 DEF Insert, BaseInv, LedgerInv, Created, PastRetention
<1> QED
    BY <1>3, <1>4, <1>5, <1>6 DEF LedgerInv

\* The row that run_once inserts for a new backup.
LEMMA InsertedBackup ==
    ASSUME BaseInv, NEW w \in Runners, InsertCreated(w)
    PROVE  \E r \in Entries :
            /\ Insert(r) /\ clock' = clock
            /\ entry' = [entry EXCEPT ![w] = r]
            /\ r.id = nextId
            /\ r.status = "created"
            /\ r.timestamp_dir = entry[w].timestamp_dir
            /\ r.content_hash = entry[w].content_hash
            /\ r.created_at = entry[w].created_at
            /\ r.timestamp_dir \in Dirs
            /\ r.content_hash \in Contents
            /\ r.created_at <= clock
<1>1. entry[w] \in Entries /\ nextId \in Nat
    BY BoundsAssumption DEF BaseInv, TypeOK, Actors
<1>2. /\ entry[w].timestamp_dir \in Dirs
      /\ entry[w].content_hash \in Contents
      /\ entry[w].created_at <= clock
    BY DEF InsertCreated, BaseInv, WorkInv, DraftLocations
<1>3. PICK e \in Entries, d \in Dirs \cup {RootDir} :
            e = entry[w] /\ d = entry[w].timestamp_dir
    BY <1>1, <1>2
<1> DEFINE r == BackupEntry(e, "created", d)
<1>4. /\ r \in Entries
      /\ r.id = nextId
      /\ r.status = "created"
      /\ r.timestamp_dir = d
      /\ r.content_hash = e.content_hash
      /\ r.created_at = e.created_at
    BY <1>1, NewRow DEF Statuses
<1>5. /\ Insert(r) /\ clock' = clock
      /\ entry' = [entry EXCEPT ![w] = r]
    BY <1>3 DEF InsertCreated
<1> HIDE DEF r
<1> QED
    BY <1>2, <1>3, <1>4, <1>5

\* Every step preserves what LedgerInv says about the rows.
LEMMA LedgerNext ==
    ASSUME BaseInv, [Next]_vars
    PROVE  LedgerInv'
<1>1. ASSUME NEW w \in Runners, InsertSkipped(w) PROVE LedgerInv'
  <2>1. entry[w] \in Entries /\ nextId \in Nat
      BY BoundsAssumption DEF BaseInv, TypeOK, Actors
  <2> DEFINE r == BackupEntry(entry[w], "skipped", RootDir)
  <2>2. r \in Entries /\ r.id = nextId /\ r.status = "skipped"
      BY <2>1, NewRow DEF Statuses
  <2>3. Insert(r) /\ clock' = clock
      BY <1>1 DEF InsertSkipped
  <2> HIDE DEF r
  <2> QED
      BY <2>2, <2>3, InsertLedger
<1>2. ASSUME NEW w \in Runners, InsertCreated(w) PROVE LedgerInv'
    BY <1>2, InsertedBackup, InsertLedger
<1>3. ASSUME NEW w \in Schedulers, DeleteRow(w) PROVE LedgerInv'
  <2>1. \A q \in doomed[w] : PastRetention(q)
      BY DEF BaseInv, DoomedInv
  <2> QED
      BY <1>3, <2>1 DEF DeleteRow, BaseInv, LedgerInv, Created, PastRetention
<1>4. ASSUME NEW w \in Schedulers, DeleteReturning(w) PROVE LedgerInv'
  <2>1. \A q \in Expired : PastRetention(q)
      BY <1>4, ExpiredArePast DEF DeleteReturning
  <2> QED
      BY <1>4, <2>1 DEF DeleteReturning, BaseInv, LedgerInv, Created, PastRetention
<1>5. CASE Tick
  <2>1. UNCHANGED <<rows, recorded, nextId>>
      BY <1>5 DEF Tick, database
  <2>2. ASSUME NEW q \in Created(recorded)
        PROVE  (q.created_at <= clock)' /\ (q \in rows \/ PastRetention(q))'
    <3>1. q \in Entries /\ q.created_at \in Nat
        BY DEF BaseInv, TypeOK, Created, Entries
    <3>2. q.created_at <= clock /\ (q \in rows \/ PastRetention(q))
        BY DEF BaseInv, LedgerInv
    <3> QED
        BY <2>1, <3>1, <3>2, Monotone, PastStable
  <2> QED
      BY <2>1, <2>2 DEF BaseInv, LedgerInv, Created
<1>6. CASE UNCHANGED ledger
    BY <1>6 DEF ledger, BaseInv, LedgerInv, Created, PastRetention
<1> QED
    BY <1>1, <1>2, <1>3, <1>4, <1>5, <1>6, LedgerSteps

-----------------------------------------------------------------------------
(***************************************************************************)
(* The pointer files.                                                      *)
(***************************************************************************)

\* Only write_current_pointer changes them.
LEMMA PointerSteps ==
    ASSUME [Next]_vars
    PROVE  (\E a \in Actors : WritePointer(a)) \/ UNCHANGED <<tmp, dst>>
<1> USE DEF pointerVars
<1>1. ASSUME NEW w \in Runners, RunOnce(w) PROVE UNCHANGED <<tmp, dst>>
    BY <1>1 DEF RunOnce, BeginRun, FindUnchanged, FindChanged, InsertSkipped,
                MakeDir, CreatePayload, FillPayload, StatsOk, StatsError,
                InsertCreated, WriteManifest, DirectoryGone
<1>2. ASSUME NEW w \in Schedulers, Prune(w) PROVE UNCHANGED <<tmp, dst>>
    BY <1>2 DEF Prune, PruneNothing, SelectDoomed, DeleteRow, DeletesDone,
                DeleteReturning, CheckDir, UnlinkDir, UnlinkError, PruneDone
<1>3. ASSUME NEW h \in Handlers, Handle(h) PROVE UNCHANGED <<tmp, dst>>
    BY <1>3 DEF Handle, Rollback, Download, Lookup, RecordEvent, ReadPayload,
                ReadError
<1>4. ASSUME NEW a \in Actors, Crash(a) PROVE UNCHANGED <<tmp, dst>>
    BY <1>4 DEF Crash, Abandon, CloseDescriptor
<1>5. ASSUME NEW w \in Schedulers, RunFails(w) PROVE UNCHANGED <<tmp, dst>>
    BY <1>5 DEF RunFails, Abandon, CloseDescriptor
<1>6. CASE Tick
    BY <1>6 DEF Tick
<1>7. CASE UNCHANGED vars
    BY <1>7 DEF vars
<1> HIDE DEF pointerVars
<1> QED
    BY <1>1, <1>2, <1>3, <1>4, <1>5, <1>6, <1>7 DEF Next

\* Every step preserves that the pointer files name recorded backups.
LEMMA PointerNext ==
    ASSUME BaseInv, [Next]_vars
    PROVE  PointerInv'
<1> DEFINE Known(p) == \/ p \in {Absent, Empty, Garbled}
                       \/ \E r \in Created(recorded) : r.id = p
<1>1. Known(tmp) /\ Known(dst)
    BY DEF BaseInv, PointerInv
<1>2. ASSUME NEW p, Known(p)
      PROVE  \/ p \in {Absent, Empty, Garbled}
             \/ \E r \in Created(recorded)' : r.id = p
    BY <1>2, Monotone
<1>3. Known(tmp') /\ Known(dst')
  <2>1. ASSUME NEW a \in Actors, OpenPointer(a) PROVE Known(tmp') /\ Known(dst')
      BY <1>1, <2>1 DEF OpenPointer, OpenTmp
  <2>2. ASSUME NEW a \in Actors, FillPointer(a) PROVE Known(tmp') /\ Known(dst')
    <3>1. entry[a] \in Created(recorded)
        BY <2>2 DEF FillPointer, BaseInv, WorkInv, Actors, PostLocations
    <3>2. Known(entry[a].id)
        BY <3>1
    <3> QED
        BY <1>1, <2>2, <3>2 DEF FillPointer, FillTmp, Overwrite
  <2>3. ASSUME NEW a \in Actors, RenamePointer(a) PROVE Known(tmp') /\ Known(dst')
      BY <1>1, <2>3 DEF RenamePointer, RenameTmp
  <2>4. ASSUME NEW a \in Actors, RenamePointerError(a) PROVE Known(tmp') /\ Known(dst')
      BY <1>1, <2>4 DEF RenamePointerError, RenameFails, pointerVars
  <2>5. CASE UNCHANGED <<tmp, dst>>
      BY <1>1, <2>5
  <2> HIDE DEF Known
  <2> QED
      BY <2>1, <2>2, <2>3, <2>4, <2>5, PointerSteps DEF WritePointer
<1> QED
    BY <1>2, <1>3 DEF PointerInv

-----------------------------------------------------------------------------
(***************************************************************************)
(* The lists of directories to remove.                                     *)
(***************************************************************************)

\* A row that appears is a new one.
LEMMA RowsAreNew ==
    ASSUME BaseInv, [Next]_vars
    PROVE  \A r \in rows' : r \in rows \/ r \notin recorded
<1>1. ASSUME NEW w \in Runners, InsertSkipped(w)
      PROVE  \A r \in rows' : r \in rows \/ r \notin recorded
  <2>1. entry[w] \in Entries /\ nextId \in Nat
      BY BoundsAssumption DEF BaseInv, TypeOK, Actors
  <2>2. BackupEntry(entry[w], "skipped", RootDir).id = nextId
      BY <2>1, NewRow DEF Statuses
  <2> QED
      BY <1>1, <2>1, <2>2 DEF InsertSkipped, Insert, BaseInv, LedgerInv
<1>2. ASSUME NEW w \in Runners, InsertCreated(w)
      PROVE  \A r \in rows' : r \in rows \/ r \notin recorded
  <2>1. PICK r : Insert(r) /\ r.id = nextId
      BY <1>2, InsertedBackup
  <2>2. nextId \in Nat
      BY Monotone
  <2>3. \A q \in recorded : q.id \in 1 .. nextId - 1
      BY DEF BaseInv, LedgerInv
  <2>4. r \notin recorded
      BY <2>1, <2>2, <2>3
  <2> QED
      BY <2>1, <2>4 DEF Insert
<1>3. ASSUME NEW w \in Schedulers, DeleteRow(w) \/ DeleteReturning(w)
      PROVE  rows' \subseteq rows
    BY <1>3 DEF DeleteRow, DeleteReturning
<1>4. Tick \/ UNCHANGED ledger => rows' = rows
    BY DEF Tick, database, ledger
<1> QED
    BY <1>1, <1>2, <1>3, <1>4, LedgerSteps

\* What each scheduler keeps of its list.
DoomedOf(w) ==
    /\ \A r \in doomed[w] : r \in Created(recorded) /\ PastRetention(r)
    /\ pc[w] \in {"rmdir", "unlink"} => doomed[w] \cap rows = {}
    /\ pc[w] = "unlink" => entry[w] \in doomed[w]

\* A scheduler whose list does not grow, and that is not just entering the
\* removal loop.
LEMMA DoomedFrame ==
    ASSUME BaseInv, [Next]_vars, NEW w \in Schedulers,
           doomed'[w] \subseteq doomed[w],
           pc'[w] \in {"rmdir", "unlink"} =>
                pc[w] \in {"rmdir", "unlink"} \/ doomed[w] \cap rows = {},
           pc'[w] = "unlink" => entry'[w] \in doomed'[w]
    PROVE  DoomedOf(w)'
<1>1. ASSUME NEW r \in doomed'[w]
      PROVE  r \in Created(recorded)' /\ PastRetention(r)' /\ r \in recorded
  <2>1. r \in Created(recorded) /\ PastRetention(r) /\ r \in recorded /\ r \in Entries
      BY <1>1 DEF BaseInv, DoomedInv, Created, TypeOK
  <2> QED
      BY <2>1, Monotone, PastStable
<1>2. pc'[w] \in {"rmdir", "unlink"} => doomed'[w] \cap rows' = {}
    BY <1>1, RowsAreNew DEF BaseInv, DoomedInv
<1> QED
    BY <1>1, <1>2 DEF DoomedOf

\* Every step preserves that doomed rows are expired backups.
LEMMA DoomedNext ==
    ASSUME BaseInv, [Next]_vars
    PROVE  DoomedInv'
<1> SUFFICES ASSUME NEW v \in Schedulers PROVE DoomedOf(v)'
    BY DEF DoomedInv, DoomedOf
<1> DEFINE Kept ==
        /\ doomed'[v] \subseteq doomed[v]
        /\ pc'[v] \in {"rmdir", "unlink"} =>
                pc[v] \in {"rmdir", "unlink"} \/ doomed[v] \cap rows = {}
        /\ pc'[v] = "unlink" => entry'[v] \in doomed'[v]
<1>0. Kept => DoomedOf(v)'
    BY DoomedFrame
<1> USE DEF Goto, EndRun, history
<1>1. DoomedOf(v) /\ v \in Runners /\ v \in Actors /\ v \notin Handlers
    BY ActorsAssumption DEF BaseInv, DoomedInv, DoomedOf, Runners, Actors
<1>2. pc \in [Actors -> Locations] /\ entry \in [Actors -> Entries]
        /\ doomed \in [Schedulers -> SUBSET Entries]
    BY DEF BaseInv, TypeOK
<1>3. ASSUME NEW w \in Runners, RunOnce(w) PROVE Kept
    BY <1>1, <1>2, <1>3
    DEF DoomedOf, RunOnce, BeginRun, FindUnchanged, FindChanged, InsertSkipped,
        MakeDir, CreatePayload, FillPayload, StatsOk, StatsError,
        InsertCreated, WriteManifest, DirectoryGone
<1>4. ASSUME NEW a \in Actors, WritePointer(a) PROVE Kept
    BY <1>1, <1>2, <1>4
    DEF DoomedOf, WritePointer, OpenPointer, FillPointer, RenamePointer,
        RenamePointerError
<1>5. ASSUME NEW h \in Handlers, Handle(h) PROVE Kept
    BY <1>1, <1>2, <1>5
    DEF DoomedOf, Handle, Rollback, Download, Lookup, RecordEvent, ReadPayload,
        ReadError
<1>6. ASSUME NEW a \in Actors, NEW l \in {"idle", "prune"}, Abandon(a, l) PROVE Kept
    BY <1>1, <1>2, <1>6 DEF DoomedOf, Abandon
<1>7. CASE Tick \/ UNCHANGED vars
  <2>1. UNCHANGED <<pc, entry, doomed>>
      BY <1>7 DEF Tick, vars
  <2> QED
      BY <1>0, <1>1, <2>1 DEF DoomedOf
<1>8. ASSUME NEW w \in Schedulers, Prune(w) PROVE DoomedOf(v)'
  <2>1. CASE SelectDoomed(w)
    <3>1. CASE v = w
      <4>1. doomed'[v] = Expired /\ pc'[v] = "delete"
          BY <1>1, <1>2, <2>1, <3>1 DEF SelectDoomed
      <4>2. UNCHANGED <<clock, recorded>> /\ Retention > 0
          BY <2>1 DEF SelectDoomed, database
      <4> QED
          BY <4>1, <4>2, ExpiredArePast DEF DoomedOf, Created, PastRetention
    <3>2. CASE v # w
        BY <1>0, <1>1, <1>2, <2>1, <3>2 DEF SelectDoomed, DoomedOf
    <3> QED
        BY <3>1, <3>2
  <2>2. CASE DeleteReturning(w)
    <3>1. CASE v = w
      <4>1. doomed'[v] = Expired /\ pc'[v] = "rmdir" /\ rows' = rows \ Expired
          BY <1>1, <1>2, <2>2, <3>1 DEF DeleteReturning
      <4>2. UNCHANGED <<clock, recorded>> /\ Retention > 0
          BY <2>2 DEF DeleteReturning
      <4> QED
          BY <4>1, <4>2, ExpiredArePast DEF DoomedOf, Created, PastRetention
    <3>2. CASE v # w
        BY <1>0, <1>1, <1>2, <2>2, <3>2 DEF DeleteReturning, DoomedOf
    <3> QED
        BY <3>1, <3>2
  <2>3. CASE PruneNothing(w) \/ DeleteRow(w) \/ DeletesDone(w) \/ PruneDone(w)
      BY <1>0, <1>1, <1>2, <2>3
      DEF PruneNothing, DeleteRow, DeletesDone, PruneDone, DoomedOf
  <2>4. CASE CheckDir(w)
      BY <1>0, <1>1, <1>2, <2>4 DEF CheckDir, DoomedOf
  <2>5. CASE UnlinkDir(w) \/ UnlinkError(w)
    <3>1. CASE v = w
      <4>1. doomed'[v] \subseteq doomed[v] /\ pc'[v] \in {"rmdir", "idle"}
          BY <1>1, <1>2, <2>5, <3>1 DEF UnlinkDir, UnlinkError
      <4>2. pc'[v] = "rmdir" => pc[v] = "unlink"
          BY <1>1, <1>2, <2>5, <3>1 DEF UnlinkDir, UnlinkError
      <4>3. UNCHANGED <<clock, rows, recorded>>
          BY <2>5 DEF UnlinkDir, UnlinkError, database
      <4> QED
          BY <1>0, <4>1, <4>2, <4>3 DEF DoomedOf, Created, PastRetention
    <3>2. CASE v # w
        BY <1>0, <1>1, <1>2, <2>5, <3>2 DEF UnlinkDir, UnlinkError, DoomedOf
    <3> QED
        BY <3>1, <3>2
  <2> QED
      BY <1>8, <2>1, <2>2, <2>3, <2>4, <2>5 DEF Prune
<1>9. ASSUME NEW a \in Actors, Crash(a) PROVE Kept
    BY <1>6, <1>9 DEF Crash
<1>10. ASSUME NEW w \in Schedulers, RunFails(w) PROVE Kept
    BY <1>6, <1>10 DEF RunFails, Actors, Runners
<1> HIDE DEF Kept
<1> QED
    BY <1>0, <1>3, <1>4, <1>5, <1>7, <1>8, <1>9, <1>10 DEF Next

-----------------------------------------------------------------------------
(***************************************************************************)
(* The entries the tasks work on.                                          *)
(***************************************************************************)

RunnerWork(w) ==
    /\ pc[w] \in {"idle"} \cup DraftLocations \cup PostLocations \cup PruneLocations
    /\ pc[w] \in DraftLocations =>
        /\ entry[w].timestamp_dir \in Dirs
        /\ entry[w].content_hash \in Contents
        /\ entry[w].created_at <= clock
    /\ pc[w] \in PostLocations => entry[w] \in Created(recorded)
    /\ w \in OneShots => pc[w] \notin PruneLocations

HandlerWork(h) ==
    /\ pc[h] \in {"idle"} \cup HandlerLocations
    /\ pc[h] # "idle" \/ served[h] # NotServed => entry[h] \in Created(recorded)

\* A task that does not move keeps what it has.
LEMMA RunnerFrame ==
    ASSUME BaseInv, [Next]_vars, NEW w \in Runners,
           pc'[w] = pc[w], entry'[w] = entry[w]
    PROVE  RunnerWork(w)'
<1>1. entry[w].created_at \in Nat
    BY DEF BaseInv, TypeOK, Entries, Actors
<1>2. RunnerWork(w)
    BY DEF BaseInv, WorkInv, RunnerWork
<1>3. /\ Created(recorded) \subseteq Created(recorded)'
      /\ clock \in Nat /\ clock' \in Nat /\ clock <= clock'
    BY Monotone
<1>4. entry[w].created_at <= clock => entry[w].created_at <= clock'
    BY <1>1, <1>3
<1> QED
    BY <1>2, <1>3, <1>4 DEF RunnerWork

\* A step that leaves a handler's state alone preserves its part of WorkInv.
LEMMA HandlerFrame ==
    ASSUME BaseInv, [Next]_vars, NEW h \in Handlers,
           pc'[h] = pc[h], entry'[h] = entry[h], served'[h] = served[h]
    PROVE  HandlerWork(h)'
BY Monotone DEF BaseInv, WorkInv, HandlerWork

\* The fields of the entry that run_once starts with.
LEMMA DraftFields ==
    ASSUME NEW e, NEW t, NEW d, NEW c,
           e = [id |-> 0, created_at |-> t, timestamp_dir |-> d,
                content_hash |-> c, status |-> "draft"]
    PROVE  /\ e.timestamp_dir = d
           /\ e.content_hash = c
           /\ e.created_at = t
OBVIOUS

\* Every step preserves what WorkInv says about runs.
LEMMA RunnersNext ==
    ASSUME BaseInv, [Next]_vars, NEW v \in Runners
    PROVE  RunnerWork(v)'
<1> USE DEF Goto, EndRun
<1>0. /\ RunnerWork(v) /\ v \in Actors /\ v \notin Handlers
      /\ v \in Schedulers => v \notin OneShots
      /\ pc \in [Actors -> Locations] /\ entry \in [Actors -> Entries]
    BY ActorsAssumption DEF BaseInv, WorkInv, TypeOK, RunnerWork, Runners, Actors
<1>1. ASSUME NEW w \in Runners, w # v, RunOnce(w) PROVE RunnerWork(v)'
  <2>1. pc'[v] = pc[v] /\ entry'[v] = entry[v]
      BY <1>0, <1>1
      DEF RunOnce, BeginRun, FindUnchanged, FindChanged, InsertSkipped, MakeDir,
          CreatePayload, FillPayload, StatsOk, StatsError, InsertCreated,
          WriteManifest, DirectoryGone
  <2> QED
      BY <2>1, RunnerFrame
<1>2. ASSUME RunOnce(v) PROVE RunnerWork(v)'
  <2>1. ASSUME NEW c \in Contents, BeginRun(v, c) PROVE RunnerWork(v)'
    <3>1. pc'[v] = "check" /\ clock' = clock
        BY <1>0, <2>1 DEF BeginRun
    <3>2. entry'[v] = [id |-> 0, created_at |-> clock,
                       timestamp_dir |-> SecondOf(clock),
                       content_hash |-> c, status |-> "draft"]
        BY <1>0, <2>1 DEF BeginRun
    <3>3. SecondOf(clock) \in Dirs /\ clock \in Nat
        BY SecondIsDir, Monotone DEF BaseInv, TypeOK
    <3>4. /\ entry'[v].timestamp_dir = SecondOf(clock)
          /\ entry'[v].content_hash = c
          /\ entry'[v].created_at = clock
      <4>1. PICK d : d = SecondOf(clock)
          OBVIOUS
      <4>2. PICK e : e = entry'[v]
          OBVIOUS
      <4>3. e = [id |-> 0, created_at |-> clock, timestamp_dir |-> d,
                 content_hash |-> c, status |-> "draft"]
          BY <3>2, <4>1, <4>2, Zenon
      <4>4. e.timestamp_dir = d /\ e.content_hash = c /\ e.created_at = clock
          BY <4>3, DraftFields
      <4> QED
          BY <4>1, <4>2, <4>4, Zenon
    <3>5. entry'[v].created_at <= clock'
      <4>1. clock <= clock
          BY <3>3
      <4>2. entry'[v].created_at = clock /\ clock' = clock
          BY <3>1, <3>4, Zenon
      <4> QED
          BY <4>1, <4>2, Zenon
    <3> QED
        BY <3>1, <3>3, <3>4, <3>5
        DEF RunnerWork, DraftLocations, PostLocations, PruneLocations
  <2> USE <1>0 DEF RunnerWork, DraftLocations, PostLocations, PruneLocations, Runners
  <2>2. CASE FindUnchanged(v) \/ FindChanged(v)
      BY <2>2 DEF FindUnchanged, FindChanged
  <2>3. CASE InsertSkipped(v)
      BY <2>3 DEF InsertSkipped
  <2>4. CASE MakeDir(v) \/ CreatePayload(v) \/ FillPayload(v)
      BY <2>4 DEF MakeDir, CreatePayload, FillPayload
  <2>5. CASE StatsOk(v)
      BY <2>5 DEF StatsOk
  <2>6. CASE StatsError(v) \/ DirectoryGone(v)
      BY <2>6 DEF StatsError, DirectoryGone
  <2>7. CASE InsertCreated(v)
    <3>1. PICK r \in Entries : /\ Insert(r) /\ r.status = "created"
                               /\ entry' = [entry EXCEPT ![v] = r]
        BY <2>7, InsertedBackup
    <3>2. entry'[v] \in Created(recorded)' /\ pc'[v] = "manifest"
        BY <2>7, <3>1 DEF Insert, Created, InsertCreated
    <3> QED
        BY <3>2
  <2>8. CASE WriteManifest(v)
      BY <2>8 DEF WriteManifest, database
  <2> QED
      BY <1>2, <2>1, <2>2, <2>3, <2>4, <2>5, <2>6, <2>7, <2>8 DEF RunOnce
<1>3. ASSUME NEW a \in Actors, WritePointer(a) PROVE RunnerWork(v)'
  <2>1. CASE a # v
    <3>1. pc'[v] = pc[v] /\ entry'[v] = entry[v]
        BY <1>0, <1>3, <2>1
        DEF WritePointer, OpenPointer, FillPointer, RenamePointer, RenamePointerError
    <3> QED
        BY <3>1, RunnerFrame
  <2>2. CASE a = v
      BY <1>0, <1>3, <2>2
      DEF WritePointer, OpenPointer, FillPointer, RenamePointer,
          RenamePointerError, RunnerWork, DraftLocations, PostLocations,
          PruneLocations, database, Runners
  <2> QED
      BY <2>1, <2>2
<1>4. ASSUME NEW w \in Schedulers, Prune(w) PROVE RunnerWork(v)'
  <2>1. CASE w # v
    <3>1. pc'[v] = pc[v] /\ entry'[v] = entry[v]
        BY <1>0, <1>4, <2>1
        DEF Prune, PruneNothing, SelectDoomed, DeleteRow, DeletesDone,
            DeleteReturning, CheckDir, UnlinkDir, UnlinkError, PruneDone
    <3> QED
        BY <3>1, RunnerFrame
  <2>2. CASE w = v
    <3>1. pc'[v] \in {"idle"} \cup PruneLocations
        BY <1>0, <1>4, <2>2
        DEF Prune, PruneNothing, SelectDoomed, DeleteRow, DeletesDone,
            DeleteReturning, CheckDir, UnlinkDir, UnlinkError, PruneDone,
            PruneLocations
    <3> QED
        BY <1>0, <2>2, <3>1
        DEF RunnerWork, DraftLocations, PostLocations, PruneLocations
  <2> QED
      BY <2>1, <2>2
<1>5. ASSUME NEW h \in Handlers, Handle(h) PROVE RunnerWork(v)'
  <2>1. pc'[v] = pc[v] /\ entry'[v] = entry[v]
      BY <1>0, <1>5
      DEF Handle, Rollback, Download, Lookup, RecordEvent, ReadPayload, ReadError
  <2> QED
      BY <2>1, RunnerFrame
<1>6. ASSUME NEW a \in Actors, NEW l \in {"idle", "prune"}, Abandon(a, l),
             a \in OneShots => l = "idle"
      PROVE  RunnerWork(v)'
  <2>1. CASE a # v
    <3>1. pc'[v] = pc[v] /\ entry'[v] = entry[v]
        BY <1>0, <1>6, <2>1 DEF Abandon
    <3> QED
        BY <3>1, RunnerFrame
  <2>2. CASE a = v
      BY <1>0, <1>6, <2>2
      DEF Abandon, RunnerWork, DraftLocations, PostLocations, PruneLocations
  <2> QED
      BY <2>1, <2>2
<1>7. ASSUME NEW a \in Actors, Crash(a) PROVE RunnerWork(v)'
    BY <1>6, <1>7 DEF Crash
<1>8. ASSUME NEW w \in Schedulers, RunFails(w) PROVE RunnerWork(v)'
    BY <1>6, <1>8, ActorsAssumption DEF RunFails, Actors, Runners
<1>9. CASE Tick \/ UNCHANGED vars
  <2>1. UNCHANGED <<pc, entry>>
      BY <1>9 DEF Tick, vars
  <2> QED
      BY <2>1, RunnerFrame
<1> QED
    BY <1>1, <1>2, <1>3, <1>4, <1>5, <1>7, <1>8, <1>9 DEF Next

\* Every step preserves what WorkInv says about requests.
LEMMA HandlersNext ==
    ASSUME BaseInv, [Next]_vars, NEW g \in Handlers
    PROVE  HandlerWork(g)'
<1> USE DEF Goto, EndRun, history
<1>0. /\ HandlerWork(g) /\ g \in Actors /\ g \notin Runners /\ g \notin Schedulers
      /\ pc \in [Actors -> Locations] /\ entry \in [Actors -> Entries]
      /\ served \in [Handlers -> Contents \cup {EmptyFile, TornFile, NotServed}]
    BY ActorsAssumption DEF BaseInv, WorkInv, TypeOK, HandlerWork, Runners, Actors
<1>1. ASSUME NEW w \in Runners, RunOnce(w) PROVE HandlerWork(g)'
  <2>1. pc'[g] = pc[g] /\ entry'[g] = entry[g] /\ served'[g] = served[g]
      BY <1>0, <1>1
      DEF RunOnce, BeginRun, FindUnchanged, FindChanged, InsertSkipped, MakeDir,
          CreatePayload, FillPayload, StatsOk, StatsError, InsertCreated,
          WriteManifest, DirectoryGone
  <2> QED
      BY <2>1, HandlerFrame
<1>2. ASSUME NEW a \in Actors, WritePointer(a) PROVE HandlerWork(g)'
  <2>1. CASE a # g
    <3>1. pc'[g] = pc[g] /\ entry'[g] = entry[g] /\ served'[g] = served[g]
        BY <1>0, <1>2, <2>1
        DEF WritePointer, OpenPointer, FillPointer, RenamePointer, RenamePointerError
    <3> QED
        BY <3>1, HandlerFrame
  <2>2. CASE a = g
      BY <1>0, <1>2, <2>2
      DEF WritePointer, OpenPointer, FillPointer, RenamePointer,
          RenamePointerError, HandlerWork, HandlerLocations, database
  <2> QED
      BY <2>1, <2>2
<1>3. ASSUME NEW w \in Schedulers, Prune(w) PROVE HandlerWork(g)'
  <2>1. pc'[g] = pc[g] /\ entry'[g] = entry[g] /\ served'[g] = served[g]
      BY <1>0, <1>3
      DEF Prune, PruneNothing, SelectDoomed, DeleteRow, DeletesDone,
          DeleteReturning, CheckDir, UnlinkDir, UnlinkError, PruneDone
  <2> QED
      BY <2>1, HandlerFrame
<1>4. ASSUME NEW h \in Handlers, Handle(h) PROVE HandlerWork(g)'
  <2>1. CASE h # g
    <3>1. pc'[g] = pc[g] /\ entry'[g] = entry[g] /\ served'[g] = served[g]
        BY <1>0, <1>4, <2>1
        DEF Handle, Rollback, Download, Lookup, RecordEvent, ReadPayload, ReadError
    <3> QED
        BY <3>1, HandlerFrame
  <2>2. CASE h = g
    <3>1. Created(rows) \subseteq Created(recorded)
        BY DEF BaseInv, LedgerInv, Created
    <3>2. CASE Rollback(g) \/ Download(g)
        BY <1>0, <3>1, <3>2
        DEF Rollback, Download, Lookup, HandlerWork, HandlerLocations, database
    <3>3. CASE RecordEvent(g) \/ ReadPayload(g) \/ ReadError(g)
        BY <1>0, <3>3
        DEF RecordEvent, ReadPayload, ReadError, HandlerWork, HandlerLocations, database
    <3> QED
        BY <1>4, <2>2, <3>2, <3>3 DEF Handle
  <2> QED
      BY <2>1, <2>2
<1>5. ASSUME NEW a \in Actors, NEW l, Abandon(a, l), a = g => l = "idle"
      PROVE  HandlerWork(g)'
  <2>1. CASE a # g
    <3>1. pc'[g] = pc[g] /\ entry'[g] = entry[g] /\ served'[g] = served[g]
        BY <1>0, <1>5, <2>1 DEF Abandon
    <3> QED
        BY <3>1, HandlerFrame
  <2>2. CASE a = g
      BY <1>0, <1>5, <2>2 DEF Abandon, HandlerWork
  <2> QED
      BY <2>1, <2>2
<1>6. ASSUME NEW a \in Actors, Crash(a) PROVE HandlerWork(g)'
    BY <1>5, <1>6 DEF Crash
<1>7. ASSUME NEW w \in Schedulers, RunFails(w) PROVE HandlerWork(g)'
    BY <1>0, <1>5, <1>7 DEF RunFails, Actors, Runners
<1>8. CASE Tick \/ UNCHANGED vars
  <2>1. UNCHANGED <<pc, entry, served>>
      BY <1>8 DEF Tick, vars
  <2> QED
      BY <2>1, HandlerFrame
<1> QED
    BY <1>1, <1>2, <1>3, <1>4, <1>6, <1>7, <1>8 DEF Next

\* Every step preserves WorkInv.
LEMMA WorkNext ==
    ASSUME BaseInv, [Next]_vars
    PROVE  WorkInv'
BY RunnersNext, HandlersNext DEF WorkInv, RunnerWork, HandlerWork, Runners

-----------------------------------------------------------------------------
(***************************************************************************)
(* The theorems that hold however many tasks share the repository, also if *)
(* they start within one second.                                           *)
(***************************************************************************)

\* The base invariant holds in an empty repository.
LEMMA BaseInit == Init => BaseInv
<1> SUFFICES ASSUME Init PROVE BaseInv
    OBVIOUS
<1> USE DEF Init, PointerInit
<1>1. TypeOK
  <2>1. 1 \in 1 .. MaxEntries + 1 /\ 0 \in 0 .. MaxTime /\ 0 \in 0 .. MaxFaults
      BY BoundsAssumption
  <2> QED
      BY <2>1, NoEntryIsEntry, ActorsAssumption
      DEF TypeOK, PointerTypeOK, PointerContents, Descriptors, Locations, Absent
<1>2. LedgerInv /\ PointerInv
    BY DEF LedgerInv, PointerInv, Created
<1>3. WorkInv
    BY DEF WorkInv, DraftLocations, PostLocations, PruneLocations, Actors, Runners
<1>4. DoomedInv
    BY DEF DoomedInv, Actors, Runners
<1> QED
    BY <1>1, <1>2, <1>3, <1>4 DEF BaseInv

\* Every step preserves the base invariant.
LEMMA BaseNext == BaseInv /\ [Next]_vars => BaseInv'
<1> SUFFICES ASSUME BaseInv, [Next]_vars PROVE BaseInv'
    OBVIOUS
<1>1. TypeOK'
  <2>1. ASSUME NEW a \in Actors, Crash(a) PROVE TypeOK'
      BY <2>1, FaultType DEF Crash, Locations
  <2>2. ASSUME NEW w \in Schedulers, RunFails(w) PROVE TypeOK'
      BY <2>2, FaultType DEF RunFails, Locations, PruneLocations, Actors, Runners
  <2>3. CASE UNCHANGED vars
      BY <2>3 DEF vars, database, files, pointerVars, history, BaseInv, TypeOK,
                  PointerTypeOK
  <2> QED
      BY <2>1, <2>2, <2>3, RunOnceType, WritePointerType, PruneType, HandleType,
         TickType DEF Next
<1> QED
    BY <1>1, LedgerNext, WorkNext, DoomedNext, PointerNext DEF BaseInv

\* The base invariant holds always: the rows, the entries that run_once, pruning
\* and the handlers work on, and the pointer files agree with each other.
THEOREM AlwaysBase == Spec => []BaseInv
BY BaseInit, BaseNext, PTL DEF Spec

\* Every variable of the repository keeps its type; in particular no handler
\* is ever served a file that is not there (ReadPayload, download_backup).
THEOREM TypeCorrect == Spec => []TypeOK
<1>1. BaseInv => TypeOK
    BY DEF BaseInv
<1> QED
    BY <1>1, AlwaysBase, PTL

\* current-pointer.json never names anything but a recorded backup whose row
\* is still there unless it is past retention.
THEOREM PointerSound == Spec => []PointerNamesRecorded
<1>1. BaseInv => PointerNamesRecorded
    BY DEF BaseInv, PointerInv, LedgerInv, PointerNamesRecorded, Absent, Empty, Garbled
<1> QED
    BY <1>1, AlwaysBase, PTL

\* Pruning, in both stores, deletes only rows of created backups past
\* retention, and nothing else deletes a row.
THEOREM PruneSound == Spec => OnlyExpiredPruned
<1>1. BaseInv /\ [Next]_vars =>
        [\A r \in rows \ rows' : r.status = "created" /\ PastRetention(r)]_vars
  <2> SUFFICES ASSUME BaseInv, [Next]_vars, NEW r \in rows \ rows'
               PROVE  r.status = "created" /\ PastRetention(r)
      OBVIOUS
  <2>1. ASSUME NEW w \in Schedulers, DeleteRow(w)
        PROVE  r.status = "created" /\ PastRetention(r)
      BY <2>1 DEF DeleteRow, BaseInv, DoomedInv, Created
  <2>2. ASSUME NEW w \in Schedulers, DeleteReturning(w)
        PROVE  r.status = "created" /\ PastRetention(r)
      BY <2>2, ExpiredArePast DEF DeleteReturning, Created
  <2>3. ASSUME NEW w \in Runners, InsertSkipped(w) \/ InsertCreated(w) PROVE FALSE
      BY <2>3 DEF InsertSkipped, InsertCreated, Insert
  <2>4. CASE Tick \/ UNCHANGED ledger
      BY <2>4 DEF Tick, ledger, database
  <2> QED
      BY <2>1, <2>2, <2>3, <2>4, LedgerSteps
<1> QED
    BY <1>1, AlwaysBase, PTL DEF Spec, OnlyExpiredPruned
=============================================================================
