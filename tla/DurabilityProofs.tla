---------------------------- MODULE DurabilityProofs ---------------------------
(***************************************************************************)
(* Proofs that backups are durable, that Repository implements             *)
(* SnapshotStore, that no directory is left behind and, for one runner,    *)
(* that runs are aware of changes and the pointer is current, provided     *)
(* that no two runs start within one second (~SharedSeconds;               *)
(* RepositoryProofs needs no such condition).                              *)
(***************************************************************************)
EXTENDS RepositoryProofs

\* A directory has one owner: the run that is filling it or the backup that was
\* recorded for it.
OwnerInv ==
    /\ \A r, q \in Created(recorded) : r.timestamp_dir = q.timestamp_dir => r = q
    /\ \A r \in Created(recorded) : \E v \in Runners : r.timestamp_dir <= stamp[v]
    /\ \A w \in Runners : pc[w] \in DraftLocations =>
        /\ entry[w].timestamp_dir = stamp[w]
        /\ \A r \in Created(recorded) : r.timestamp_dir # stamp[w]
        /\ \A v \in Runners \ {w} :
                pc[v] \in DraftLocations => stamp[v] # stamp[w]

\* ... so what it has put there is still there at its next step.
ContentInv ==
    /\ \A w \in Runners :
        /\ pc[w] = "fill" => payload[entry[w].timestamp_dir] = EmptyFile
        /\ pc[w] \in {"stats", "insert"} =>
                payload[entry[w].timestamp_dir] = entry[w].content_hash
    /\ BackupsDurable
    /\ ServedFaithful

-----------------------------------------------------------------------------
(***************************************************************************)
(* Who owns a directory.                                                   *)
(***************************************************************************)

\* Of the steps only BeginRun makes a draft and only InsertCreated a backup;
\* the others at most end a draft.
OwnerFrame ==
    /\ Created(recorded)' = Created(recorded)
    /\ stamp' = stamp
    /\ \A w \in Runners : pc'[w] \in DraftLocations =>
            pc[w] \in DraftLocations /\ entry'[w] = entry[w]

\* The row of a skipped run is not a backup.
LEMMA SkippedNotCreated ==
    ASSUME BaseInv, NEW w \in Runners, InsertSkipped(w)
    PROVE  Created(recorded)' = Created(recorded)
<1>1. entry[w] \in Entries /\ nextId \in Nat
    BY BoundsAssumption DEF BaseInv, TypeOK, Actors
<1>2. BackupEntry(entry[w], "skipped", RootDir).status = "skipped"
    BY <1>1, NewRow DEF Statuses
<1> QED
    BY <1>2 DEF InsertSkipped, Insert, Created

\* Every step keeps ownership as it is, except the start of a run and the
\* INSERT of its row.
LEMMA OwnerSteps ==
    ASSUME BaseInv, [Next]_vars
    PROVE  \/ \E w \in Runners, c \in Contents : BeginRun(w, c)
           \/ \E w \in Runners : InsertCreated(w)
           \/ OwnerFrame
<1> USE DEF Goto, EndRun, history, database, DraftLocations
<1>0. /\ pc \in [Actors -> Locations] /\ entry \in [Actors -> Entries]
      /\ Runners \subseteq Actors /\ Handlers \subseteq Actors
      /\ Schedulers \subseteq Runners /\ Runners \cap Handlers = {}
    BY ActorsAssumption DEF BaseInv, TypeOK, Runners, Actors
<1>1. ASSUME NEW w \in Runners, InsertSkipped(w) PROVE OwnerFrame
    BY <1>0, <1>1, SkippedNotCreated DEF OwnerFrame, InsertSkipped
<1>2. ASSUME recorded' = recorded PROVE Created(recorded)' = Created(recorded)
    BY <1>2 DEF Created
<1>3. ASSUME NEW w \in Runners, RunOnce(w)
      PROVE  \/ \E c \in Contents : BeginRun(w, c)
             \/ InsertCreated(w)
             \/ OwnerFrame
  <2>1. CASE FindUnchanged(w) \/ FindChanged(w)
      BY <1>0, <1>2, <2>1 DEF OwnerFrame, FindUnchanged, FindChanged
  <2>2. CASE MakeDir(w) \/ CreatePayload(w) \/ FillPayload(w)
      BY <1>0, <1>2, <2>2 DEF OwnerFrame, MakeDir, CreatePayload, FillPayload
  <2>3. CASE StatsOk(w) \/ StatsError(w) \/ WriteManifest(w) \/ DirectoryGone(w)
      BY <1>0, <1>2, <2>3
      DEF OwnerFrame, StatsOk, StatsError, WriteManifest, DirectoryGone
  <2> QED
      BY <1>1, <1>3, <2>1, <2>2, <2>3 DEF RunOnce
<1>4. ASSUME NEW a \in Actors, WritePointer(a) PROVE OwnerFrame
    BY <1>0, <1>2, <1>4
    DEF OwnerFrame, WritePointer, OpenPointer, FillPointer, RenamePointer,
        RenamePointerError
<1>5. ASSUME NEW w \in Schedulers, Prune(w) PROVE OwnerFrame
  <2>1. recorded' = recorded /\ stamp' = stamp
      BY <1>5 DEF Prune, PruneNothing, SelectDoomed, DeleteRow, DeletesDone,
                  DeleteReturning, CheckDir, UnlinkDir, UnlinkError, PruneDone
  <2>2. ASSUME NEW v \in Runners, pc'[v] \in DraftLocations
        PROVE  pc[v] \in DraftLocations /\ entry'[v] = entry[v]
      BY <1>0, <1>5, <2>2
      DEF Prune, PruneNothing, SelectDoomed, DeleteRow, DeletesDone,
          DeleteReturning, CheckDir, UnlinkDir, UnlinkError, PruneDone
  <2> QED
      BY <1>2, <2>1, <2>2 DEF OwnerFrame
<1>6. ASSUME NEW h \in Handlers, Handle(h) PROVE OwnerFrame
    BY <1>0, <1>2, <1>6
    DEF OwnerFrame, Handle, Rollback, Download, Lookup, RecordEvent, ReadPayload,
        ReadError
<1>7. ASSUME NEW a \in Actors, Crash(a) PROVE OwnerFrame
    BY <1>0, <1>2, <1>7 DEF OwnerFrame, Crash, Abandon
<1>8. ASSUME NEW w \in Schedulers, RunFails(w) PROVE OwnerFrame
    BY <1>0, <1>2, <1>8 DEF OwnerFrame, RunFails, Abandon
<1>9. CASE Tick \/ UNCHANGED vars
  <2>1. UNCHANGED <<recorded, stamp, pc, entry>>
      BY <1>9 DEF Tick, vars
  <2> QED
      BY <1>2, <2>1 DEF OwnerFrame
<1> HIDE DEF Goto, EndRun, history, database, DraftLocations
<1> QED
    BY <1>3, <1>4, <1>5, <1>6, <1>7, <1>8, <1>9 DEF Next

\* Every step preserves: a directory belongs to one draft or one backup.
LEMMA OwnerNext ==
    ASSUME BaseInv, OwnerInv, ~SharedSeconds, [Next]_vars
    PROVE  OwnerInv'
<1>0. /\ pc \in [Actors -> Locations] /\ entry \in [Actors -> Entries]
      /\ stamp \in [Runners -> Int] /\ Runners \subseteq Actors
    BY DEF BaseInv, TypeOK, Runners, Actors
<1>1. \A r \in Created(recorded) : r.timestamp_dir \in Nat
    BY DirsAreNat DEF BaseInv, LedgerInv
<1>2. ASSUME NEW w \in Runners, NEW c \in Contents, BeginRun(w, c) PROVE OwnerInv'
  <2>1. PICK d : d = SecondOf(clock) /\ d \in Nat
      BY SecondIsDir, DirsAreNat DEF BaseInv, TypeOK
  <2>2. \A v \in Runners : d > stamp[v]
      BY <1>2, <2>1 DEF BeginRun, MayStart
  <2>3. /\ stamp' = [stamp EXCEPT ![w] = d]
        /\ pc' = [pc EXCEPT ![w] = "check"]
        /\ entry'[w].timestamp_dir = d
        /\ \A v \in Runners \ {w} : entry'[v] = entry[v]
        /\ recorded' = recorded
      BY <1>0, <1>2, <2>1 DEF BeginRun, Goto, database
  <2>4. Created(recorded)' = Created(recorded)
      BY <2>3 DEF Created
  <2>5. \A r \in Created(recorded) : r.timestamp_dir < d
      BY <1>0, <1>1, <2>1, <2>2 DEF OwnerInv
  <2>6. ASSUME NEW r \in Created(recorded)
        PROVE  \E v \in Runners : r.timestamp_dir <= stamp'[v]
      BY <1>0, <1>1, <2>1, <2>3, <2>5
  <2>7. ASSUME NEW v \in Runners, pc'[v] \in DraftLocations
        PROVE  /\ entry'[v].timestamp_dir = stamp'[v]
               /\ \A r \in Created(recorded) : r.timestamp_dir # stamp'[v]
               /\ \A u \in Runners \ {v} :
                    pc'[u] \in DraftLocations => stamp'[u] # stamp'[v]
      BY <1>0, <1>1, <2>1, <2>2, <2>3, <2>5, <2>7 DEF OwnerInv
  <2> QED
      BY <2>4, <2>6, <2>7 DEF OwnerInv
<1>3. ASSUME NEW w \in Runners, InsertCreated(w) PROVE OwnerInv'
  <2>1. PICK r \in Entries :
            /\ Insert(r) /\ r.status = "created"
            /\ r.timestamp_dir = entry[w].timestamp_dir
            /\ entry' = [entry EXCEPT ![w] = r]
      BY <1>3, InsertedBackup
  <2>2. /\ pc[w] \in DraftLocations
        /\ pc' = [pc EXCEPT ![w] = "manifest"]
        /\ stamp' = stamp
      BY <1>3 DEF InsertCreated, Goto, history, DraftLocations
  <2>3. Created(recorded)' = Created(recorded) \cup {r}
      BY <2>1 DEF Insert, Created
  <2>4. r.timestamp_dir = stamp[w] /\ stamp[w] \in Int
      BY <1>0, <2>1, <2>2 DEF OwnerInv
  <2>5. \A v \in Runners : pc'[v] \in DraftLocations =>
            v # w /\ pc[v] \in DraftLocations /\ entry'[v] = entry[v]
      BY <1>0, <2>1, <2>2 DEF DraftLocations
  <2>6. ASSUME NEW q \in Created(recorded)'
        PROVE  \E v \in Runners : q.timestamp_dir <= stamp'[v]
      BY <2>2, <2>3, <2>4, <2>6 DEF OwnerInv
  <2>7. ASSUME NEW x \in Created(recorded)', NEW y \in Created(recorded)',
               x.timestamp_dir = y.timestamp_dir
        PROVE  x = y
      BY <2>2, <2>3, <2>4, <2>7 DEF OwnerInv
  <2>8. ASSUME NEW v \in Runners, pc'[v] \in DraftLocations
        PROVE  /\ entry'[v].timestamp_dir = stamp'[v]
               /\ \A q \in Created(recorded)' : q.timestamp_dir # stamp'[v]
               /\ \A u \in Runners \ {v} :
                    pc'[u] \in DraftLocations => stamp'[u] # stamp'[v]
      BY <2>2, <2>3, <2>4, <2>5, <2>8 DEF OwnerInv
  <2> QED
      BY <2>6, <2>7, <2>8 DEF OwnerInv
<1>4. CASE OwnerFrame
    BY <1>4 DEF OwnerInv, OwnerFrame
<1> QED
    BY <1>2, <1>3, <1>4, OwnerSteps

-----------------------------------------------------------------------------
(***************************************************************************)
(* What a directory holds.                                                 *)
(***************************************************************************)

\* A payload changes only by a step of the run that is filling its directory,
\* or by the removal of an expired backup's directory.
LEMMA PayloadSteps ==
    ASSUME BaseInv, [Next]_vars, NEW d \in Dirs
    PROVE  \/ payload'[d] = payload[d]
           \/ \E w \in Runners : /\ MakeDir(w) \/ CreatePayload(w) \/ FillPayload(w)
                                 /\ entry[w].timestamp_dir = d
           \/ \E w \in Schedulers : UnlinkDir(w) /\ entry[w].timestamp_dir = d
<1> USE DEF files
<1>0. payload \in [Dirs -> Contents \cup {NoDir, NoFile, EmptyFile, TornFile}]
    BY DEF BaseInv, TypeOK
<1>1. ASSUME NEW w \in Runners, MakeDir(w) \/ CreatePayload(w) \/ FillPayload(w)
      PROVE  payload'[d] = payload[d] \/ entry[w].timestamp_dir = d
    BY <1>0, <1>1 DEF MakeDir, CreatePayload, FillPayload
<1>2. ASSUME NEW w \in Runners, RunOnce(w)
      PROVE  MakeDir(w) \/ CreatePayload(w) \/ FillPayload(w) \/ payload' = payload
    BY <1>2 DEF RunOnce, BeginRun, FindUnchanged, FindChanged, InsertSkipped,
                StatsOk, StatsError, InsertCreated, WriteManifest, DirectoryGone
<1>3. ASSUME NEW a \in Actors, WritePointer(a) PROVE payload' = payload
    BY <1>3 DEF WritePointer, OpenPointer, FillPointer, RenamePointer,
                RenamePointerError
<1>4. ASSUME NEW w \in Schedulers, Prune(w) PROVE UnlinkDir(w) \/ payload' = payload
    BY <1>4 DEF Prune, PruneNothing, SelectDoomed, DeleteRow, DeletesDone,
                DeleteReturning, CheckDir, UnlinkError, PruneDone
<1>5. ASSUME NEW w \in Schedulers, UnlinkDir(w)
      PROVE  payload'[d] = payload[d] \/ entry[w].timestamp_dir = d
  <2>1. entry[w].timestamp_dir \in Dirs
      BY <1>5 DEF UnlinkDir, BaseInv, DoomedInv, LedgerInv
  <2>2. entry[w].timestamp_dir # RootDir
      BY <2>1, DirsAreNat DEF RootDir
  <2> QED
      BY <1>5, <2>2 DEF UnlinkDir, RemoveDir
<1>6. ASSUME NEW h \in Handlers, Handle(h) PROVE payload' = payload
    BY <1>6 DEF Handle, Rollback, Download, Lookup, RecordEvent, ReadPayload,
                ReadError
<1>7. ASSUME NEW a \in Actors, Crash(a) PROVE payload' = payload
    BY <1>7 DEF Crash, Abandon
<1>8. ASSUME NEW w \in Schedulers, RunFails(w) PROVE payload' = payload
    BY <1>8 DEF RunFails, Abandon
<1>9. Tick \/ UNCHANGED vars => payload' = payload
    BY DEF Tick, vars
<1> HIDE DEF files
<1> QED
    BY <1>1, <1>2, <1>3, <1>4, <1>5, <1>6, <1>7, <1>8, <1>9 DEF Next

\* A run that is filling its directory, or about to insert its row, is moved
\* only by its own steps, and nobody else touches its payload.
LEMMA DraftUndisturbed ==
    ASSUME BaseInv, OwnerInv, [Next]_vars, NEW v \in Runners,
           pc'[v] \in {"fill", "stats", "insert"},
           ~CreatePayload(v), ~FillPayload(v), ~StatsOk(v)
    PROVE  /\ pc'[v] = pc[v]
           /\ entry'[v] = entry[v]
           /\ payload'[entry[v].timestamp_dir] = payload[entry[v].timestamp_dir]
<1> USE DEF Goto, EndRun
<1>0. /\ pc \in [Actors -> Locations] /\ entry \in [Actors -> Entries]
      /\ Runners \subseteq Actors /\ Handlers \subseteq Actors
      /\ Schedulers \subseteq Runners /\ Runners \cap Handlers = {}
    BY ActorsAssumption DEF BaseInv, TypeOK, Runners, Actors
<1>1. pc'[v] = pc[v] /\ entry'[v] = entry[v]
  <2>1. ASSUME NEW w \in Runners, RunOnce(w) PROVE pc'[v] = pc[v] /\ entry'[v] = entry[v]
    <3>1. CASE w = v
        BY <1>0, <2>1, <3>1
        DEF RunOnce, BeginRun, FindUnchanged, FindChanged, InsertSkipped,
            MakeDir, StatsError, InsertCreated, WriteManifest, DirectoryGone
    <3>2. CASE w # v
        BY <1>0, <2>1, <3>2
        DEF RunOnce, BeginRun, FindUnchanged, FindChanged, InsertSkipped,
            MakeDir, CreatePayload, FillPayload, StatsOk, StatsError,
            InsertCreated, WriteManifest, DirectoryGone
    <3> QED
        BY <3>1, <3>2
  <2>2. ASSUME NEW a \in Actors, WritePointer(a) PROVE pc'[v] = pc[v] /\ entry'[v] = entry[v]
      BY <1>0, <2>2
      DEF WritePointer, OpenPointer, FillPointer, RenamePointer, RenamePointerError
  <2>3. ASSUME NEW w \in Schedulers, Prune(w) PROVE pc'[v] = pc[v] /\ entry'[v] = entry[v]
      BY <1>0, <2>3
      DEF Prune, PruneNothing, SelectDoomed, DeleteRow, DeletesDone,
          DeleteReturning, CheckDir, UnlinkDir, UnlinkError, PruneDone
  <2>4. ASSUME NEW h \in Handlers, Handle(h) PROVE pc'[v] = pc[v] /\ entry'[v] = entry[v]
      BY <1>0, <2>4
      DEF Handle, Rollback, Download, Lookup, RecordEvent, ReadPayload, ReadError
  <2>5. ASSUME NEW a \in Actors, Crash(a) PROVE pc'[v] = pc[v] /\ entry'[v] = entry[v]
      BY <1>0, <2>5 DEF Crash, Abandon
  <2>6. ASSUME NEW w \in Schedulers, RunFails(w) PROVE pc'[v] = pc[v] /\ entry'[v] = entry[v]
      BY <1>0, <2>6 DEF RunFails, Abandon
  <2>7. CASE Tick \/ UNCHANGED vars
      BY <2>7 DEF Tick, vars
  <2> HIDE DEF Goto, EndRun
  <2> QED
      BY <2>1, <2>2, <2>3, <2>4, <2>5, <2>6, <2>7 DEF Next
<1>2. /\ pc[v] \in DraftLocations
      /\ entry[v].timestamp_dir \in Dirs
      /\ entry[v].timestamp_dir = stamp[v]
    BY <1>1 DEF DraftLocations, BaseInv, WorkInv, OwnerInv
<1>3. ASSUME NEW w \in Runners, MakeDir(w) \/ CreatePayload(w) \/ FillPayload(w)
      PROVE  entry[w].timestamp_dir # entry[v].timestamp_dir
  <2>1. pc[w] \in DraftLocations
      BY <1>3 DEF MakeDir, CreatePayload, FillPayload, DraftLocations
  <2>2. w # v
      BY <1>0, <1>1, <1>3 DEF MakeDir, CreatePayload, FillPayload
  <2> QED
      BY <1>2, <2>1, <2>2 DEF OwnerInv
<1>4. ASSUME NEW w \in Schedulers, UnlinkDir(w)
      PROVE  entry[w].timestamp_dir # entry[v].timestamp_dir
  <2>1. entry[w] \in Created(recorded)
      BY <1>4 DEF UnlinkDir, BaseInv, DoomedInv
  <2> QED
      BY <1>2, <2>1 DEF OwnerInv
<1> QED
    BY <1>1, <1>2, <1>3, <1>4, PayloadSteps

\* The bytes of one backup.
DurableBackup(r) ==
    \/ payload[r.timestamp_dir] = r.content_hash
    \/ payload[r.timestamp_dir] = NoDir /\ r \notin rows /\ PastRetention(r)

\* Every step preserves that backups keep their bytes (BackupsDurable).
LEMMA DurableNext ==
    ASSUME BaseInv, OwnerInv, ContentInv, [Next]_vars, NEW r \in Created(recorded)
    PROVE  DurableBackup(r)'
<1>1. r \in recorded /\ r \in Entries /\ r.timestamp_dir \in Dirs /\ DurableBackup(r)
    BY DEF BaseInv, LedgerInv, TypeOK, Created, ContentInv, BackupsDurable, DurableBackup
<1>2. CASE payload'[r.timestamp_dir] = payload[r.timestamp_dir]
    BY <1>1, <1>2, RowsAreNew, PastStable DEF DurableBackup
<1>3. ASSUME NEW w \in Runners, MakeDir(w) \/ CreatePayload(w) \/ FillPayload(w),
             entry[w].timestamp_dir = r.timestamp_dir
      PROVE  FALSE
    BY <1>3 DEF MakeDir, CreatePayload, FillPayload, DraftLocations, OwnerInv
<1>4. ASSUME NEW w \in Schedulers, UnlinkDir(w), entry[w].timestamp_dir = r.timestamp_dir
      PROVE  DurableBackup(r)'
  <2>1. /\ entry[w] \in Created(recorded) /\ PastRetention(entry[w])
        /\ entry[w] \notin rows
      BY <1>4 DEF UnlinkDir, BaseInv, DoomedInv
  <2>2. entry[w] = r
      BY <1>4, <2>1 DEF OwnerInv
  <2>3. payload'[r.timestamp_dir] = NoDir /\ rows' = rows
      BY <1>1, <1>4 DEF UnlinkDir, RemoveDir, database
  <2>4. PastRetention(r)'
      BY <1>1, <2>1, <2>2, PastStable
  <2> QED
      BY <2>1, <2>2, <2>3, <2>4 DEF DurableBackup
<1> QED
    BY <1>1, <1>2, <1>3, <1>4, PayloadSteps

\* Every step preserves that requests are served the bytes of the backup they
\* looked up (ServedFaithful).
LEMMA ServedNext ==
    ASSUME BaseInv, ContentInv, [Next]_vars, NEW g \in Handlers, served'[g] # NotServed
    PROVE  served'[g] = entry'[g].content_hash
<1> USE DEF Goto, EndRun, history
<1> DEFINE Same == served'[g] = served[g] /\ entry'[g] = entry[g]
<1>0. /\ entry \in [Actors -> Entries] /\ g \in Actors
      /\ g \notin Runners /\ g \notin Schedulers
      /\ served \in [Handlers -> Contents \cup {EmptyFile, TornFile, NotServed}]
    BY ActorsAssumption DEF BaseInv, TypeOK, Runners, Actors
<1>1. ASSUME NEW w \in Runners, RunOnce(w) PROVE Same
    BY <1>0, <1>1
    DEF RunOnce, BeginRun, FindUnchanged, FindChanged, InsertSkipped, MakeDir,
        CreatePayload, FillPayload, StatsOk, StatsError, InsertCreated,
        WriteManifest, DirectoryGone
<1>2. ASSUME NEW a \in Actors, WritePointer(a) PROVE Same
    BY <1>0, <1>2
    DEF WritePointer, OpenPointer, FillPointer, RenamePointer, RenamePointerError
<1>3. ASSUME NEW w \in Schedulers, Prune(w) PROVE Same
    BY <1>0, <1>3
    DEF Prune, PruneNothing, SelectDoomed, DeleteRow, DeletesDone,
        DeleteReturning, CheckDir, UnlinkDir, UnlinkError, PruneDone
<1>4. ASSUME NEW h \in Handlers, Handle(h)
      PROVE  Same \/ ReadPayload(g)
    BY <1>0, <1>4
    DEF Handle, Rollback, Download, Lookup, RecordEvent, ReadPayload, ReadError
<1>5. CASE ReadPayload(g)
  <2>1. entry[g] \in Created(recorded)
      BY <1>5 DEF ReadPayload, BaseInv, WorkInv
  <2>2. payload[entry[g].timestamp_dir] \in {entry[g].content_hash, NoDir}
      BY <2>1 DEF ContentInv, BackupsDurable
  <2> QED
      BY <1>0, <1>5, <2>2 DEF ReadPayload
<1>6. ASSUME NEW a \in Actors, Crash(a) PROVE Same
    BY <1>0, <1>6 DEF Crash, Abandon
<1>7. ASSUME NEW w \in Schedulers, RunFails(w) PROVE Same
    BY <1>0, <1>7 DEF RunFails, Abandon
<1>8. Tick \/ UNCHANGED vars => Same
    BY DEF Tick, vars
<1>9. Same => served'[g] = entry'[g].content_hash
    BY DEF ContentInv, ServedFaithful
<1> HIDE DEF Same, Goto, EndRun, history
<1> QED
    BY <1>1, <1>2, <1>3, <1>4, <1>5, <1>6, <1>7, <1>8, <1>9 DEF Next

\* Every step preserves what drafts, backups and answers say about files.
LEMMA ContentNext ==
    ASSUME BaseInv, OwnerInv, ContentInv, [Next]_vars
    PROVE  ContentInv'
<1>1. ASSUME NEW v \in Runners
      PROVE  /\ pc'[v] = "fill" => payload'[entry'[v].timestamp_dir] = EmptyFile
             /\ pc'[v] \in {"stats", "insert"} =>
                    payload'[entry'[v].timestamp_dir] = entry'[v].content_hash
  <2>0. /\ pc \in [Actors -> Locations] /\ v \in Actors
        /\ payload \in [Dirs -> Contents \cup {NoDir, NoFile, EmptyFile, TornFile}]
        /\ pc[v] \in DraftLocations => entry[v].timestamp_dir \in Dirs
      BY DEF BaseInv, TypeOK, WorkInv, Actors
  <2>1. CASE CreatePayload(v)
      BY <2>0, <2>1 DEF CreatePayload, Goto, DraftLocations
  <2>2. CASE FillPayload(v)
    <3>1. payload[entry[v].timestamp_dir] = EmptyFile
        BY <2>2 DEF FillPayload, ContentInv
    <3>2. WrittenOver(payload[entry[v].timestamp_dir], entry[v].content_hash)
              = {entry[v].content_hash}
        BY <3>1 DEF WrittenOver, EmptyFile, NoDir
    <3> QED
        BY <2>0, <2>2, <3>2 DEF FillPayload, Goto, DraftLocations
  <2>3. CASE StatsOk(v)
      BY <2>0, <2>3 DEF StatsOk, Goto, files, ContentInv
  <2>4. CASE ~CreatePayload(v) /\ ~FillPayload(v) /\ ~StatsOk(v)
    <3>1. CASE pc'[v] \in {"fill", "stats", "insert"}
      <4>1. /\ pc'[v] = pc[v] /\ entry'[v] = entry[v]
            /\ payload'[entry[v].timestamp_dir] = payload[entry[v].timestamp_dir]
          BY <2>4, <3>1, DraftUndisturbed
      <4> QED
          BY <4>1 DEF ContentInv
    <3>2. CASE pc'[v] \notin {"fill", "stats", "insert"}
        BY <3>2
    <3> QED
        BY <3>1, <3>2
  <2> QED
      BY <2>1, <2>2, <2>3, <2>4
<1>2. BackupsDurable'
  <2> SUFFICES ASSUME NEW r \in Created(recorded)' PROVE DurableBackup(r)'
      BY DEF BackupsDurable, DurableBackup
  <2>1. CASE r \in Created(recorded)
      BY <2>1, DurableNext
  <2>2. ASSUME NEW w \in Runners, InsertCreated(w), r \notin Created(recorded)
        PROVE  DurableBackup(r)'
    <3>1. PICK q \in Entries :
              /\ Insert(q)
              /\ q.timestamp_dir = entry[w].timestamp_dir
              /\ q.content_hash = entry[w].content_hash
        BY <2>2, InsertedBackup
    <3>2. r = q
        BY <2>2, <3>1 DEF Insert, Created
    <3>3. payload' = payload /\ payload[entry[w].timestamp_dir] = entry[w].content_hash
        BY <2>2 DEF InsertCreated, files, ContentInv
    <3> QED
        BY <3>1, <3>2, <3>3 DEF DurableBackup
  <2>3. ASSUME NEW w \in Runners, NEW c \in Contents, BeginRun(w, c)
        PROVE  r \in Created(recorded)
      BY <2>3 DEF BeginRun, database, Created
  <2> QED
      BY <2>1, <2>2, <2>3, OwnerSteps DEF OwnerFrame
<1>3. ASSUME NEW h \in Handlers, served'[h] # NotServed
      PROVE  served'[h] = entry'[h].content_hash
    BY <1>3, ServedNext
<1> QED
    BY <1>1, <1>2, <1>3 DEF ContentInv, ServedFaithful

-----------------------------------------------------------------------------
(***************************************************************************)
(* The theorems.                                                           *)
(***************************************************************************)

StoreInv == BaseInv /\ OwnerInv /\ ContentInv

\* The whole invariant holds in an empty repository.
LEMMA StoreInit == Init => StoreInv
<1> SUFFICES ASSUME Init PROVE StoreInv
    OBVIOUS
<1>1. BaseInv
    BY BaseInit
<1>2. OwnerInv /\ ContentInv
    BY DEF Init, OwnerInv, ContentInv, BackupsDurable, ServedFaithful, Created,
           DraftLocations, Actors
<1> QED
    BY <1>1, <1>2 DEF StoreInv

\* No two runs start within one second.
THEOREM AlwaysStore ==
    ASSUME ~SharedSeconds
    PROVE  Spec => []StoreInv
<1>1. StoreInv /\ [Next]_vars => StoreInv'
    BY BaseNext, OwnerNext, ContentNext DEF StoreInv
<1> QED
    BY <1>1, StoreInit, PTL DEF Spec

\* If runs start in different seconds, a backup keeps the bytes that were hashed
\* from the INSERT of run_once until pruning has deleted its row.
THEOREM Durability ==
    ASSUME ~SharedSeconds
    PROVE  Spec => []BackupsDurable
<1>1. StoreInv => BackupsDurable
    BY DEF StoreInv, ContentInv
<1> QED
    BY <1>1, AlwaysStore, PTL

\* ... and what download_backup and the upload of rollback_backup read is the
\* content of the backup they have looked up.
THEOREM Serving ==
    ASSUME ~SharedSeconds
    PROVE  Spec => []ServedFaithful
<1>1. StoreInv => ServedFaithful
    BY DEF StoreInv, ContentInv
<1> QED
    BY <1>1, AlwaysStore, PTL

-----------------------------------------------------------------------------
(***************************************************************************)
(* Refinement.                                                             *)
(***************************************************************************)

\* What can be restored is what was hashed.
CatalogHashed == Catalog = {Hashed(r) : r \in Created(rows)}

\* Under the invariant the catalog of SnapshotStore is what was hashed.
LEMMA CatalogIsHashed == StoreInv => CatalogHashed
<1> SUFFICES ASSUME StoreInv PROVE CatalogHashed
    OBVIOUS
<1>1. ASSUME NEW r \in Created(rows) PROVE Restorable(r) = Hashed(r)
  <2>1. r \in Created(recorded) /\ r \in rows
      BY DEF StoreInv, BaseInv, LedgerInv, Created
  <2>2. payload[r.timestamp_dir] = r.content_hash
      BY <2>1 DEF StoreInv, ContentInv, BackupsDurable
  <2> QED
      BY <2>2 DEF Restorable, Hashed
<1> QED
    BY <1>1 DEF Catalog, CatalogHashed

\* A step that leaves clock and backups alone is a stutter of SnapshotStore.
LEMMA RefineSkip ==
    ASSUME CatalogHashed, CatalogHashed', clock' = clock,
           Created(rows)' = Created(rows), Created(recorded)' = Created(recorded)
    PROVE  UNCHANGED Store!vars
<1>1. Catalog' = Catalog
    BY DEF CatalogHashed, Hashed
<1>2. Published' = Published
    BY DEF Published, Hashed
<1> QED
    BY <1>1, <1>2 DEF Store!vars

\* The INSERT of a created row is Publish.
LEMMA RefineInsert ==
    ASSUME StoreInv, CatalogHashed, CatalogHashed', NEW w \in Runners, InsertCreated(w)
    PROVE  Store!Next
<1>1. PICK r \in Entries :
        /\ Insert(r) /\ clock' = clock
        /\ r.id = nextId /\ r.status = "created"
        /\ r.content_hash \in Contents /\ r.created_at <= clock
    BY InsertedBackup DEF StoreInv
<1>2. /\ Created(rows)' = Created(rows) \cup {r}
      /\ Created(recorded)' = Created(recorded) \cup {r}
    BY <1>1 DEF Insert, Created
<1>3. Catalog' = Catalog \cup {Hashed(r)}
    BY <1>2 DEF CatalogHashed, Hashed
<1>4. Published' = Published \cup {Hashed(r)}
    BY <1>2 DEF Published, Hashed
<1>5. nextId \in 1 .. MaxEntries /\ r.created_at \in 0 .. clock
  <2>0. nextId \in 1 .. MaxEntries + 1 /\ nextId <= MaxEntries
      BY <1>1, Zenon DEF Insert, StoreInv, BaseInv, TypeOK
  <2>1. nextId \in Nat /\ nextId >= 1 /\ nextId <= MaxEntries /\ MaxEntries \in Nat
      BY <2>0, BoundsAssumption
  <2>2. r.created_at \in Nat /\ clock \in Nat
      BY BoundsAssumption DEF StoreInv, BaseInv, TypeOK, Entries
  <2> QED
      BY <1>1, <2>1, <2>2
<1>6. \A p \in Published : p.id # nextId
  <2>0. \A q \in recorded : q.id \in 1 .. nextId - 1
      BY DEF StoreInv, BaseInv, LedgerInv
  <2>1. \A q \in Created(recorded) : q.id # nextId
      BY <1>5, <2>0 DEF Created
  <2> QED
      BY <2>1 DEF Published, Hashed
<1>7. Store!Publish([id |-> nextId, born |-> r.created_at, content |-> r.content_hash])
    BY <1>1, <1>3, <1>4, <1>6 DEF Store!Publish, Hashed
<1> QED
    BY <1>1, <1>5, <1>7 DEF Store!Next

\* A DELETE of expired rows is Retire.
LEMMA RefineDelete ==
    ASSUME StoreInv, CatalogHashed, CatalogHashed', rows' \subseteq rows,
           recorded' = recorded, clock' = clock,
           \A r \in rows \ rows' : r.status = "created" /\ PastRetention(r)
    PROVE  Store!Next
<1> DEFINE S == {Hashed(r) : r \in rows \ rows'}
<1>1. Created(rows)' = Created(rows) \ (rows \ rows')
    BY DEF Created
<1>2. \A r, q \in rows : Hashed(r) = Hashed(q) => r = q
    BY DEF Hashed, StoreInv, BaseInv, LedgerInv
<1>3. Catalog' = Catalog \ S
  <2>1. \A r \in Created(rows) : Hashed(r) \in S <=> r \in rows \ rows'
      BY <1>2 DEF Created
  <2>2. Catalog' = {Hashed(r) : r \in Created(rows) \ (rows \ rows')}
      BY <1>1 DEF CatalogHashed, Hashed
  <2> HIDE DEF S
  <2> QED
      BY <2>1, <2>2 DEF CatalogHashed
<1>4. S \in SUBSET Catalog
    BY DEF CatalogHashed, Created
<1>5. \A s \in S : Store!OutOfDate(s)
    BY DEF Store!OutOfDate, Hashed, PastRetention
<1>6. Published' = Published
    BY DEF Published, Created, Hashed
<1>7. Store!Retire(S)
    BY <1>3, <1>5, <1>6 DEF Store!Retire
<1> HIDE DEF S
<1> QED
    BY <1>4, <1>7 DEF Store!Next

\* Every step of the repository is a step or a stutter of SnapshotStore.
LEMMA RefineNext ==
    ASSUME StoreInv, CatalogHashed, CatalogHashed', [Next]_vars
    PROVE  [Store!Next]_(Store!vars)
<1>0. BaseInv
    BY DEF StoreInv
<1>1. ASSUME NEW w \in Runners, InsertSkipped(w) PROVE UNCHANGED Store!vars
  <2>1. entry[w] \in Entries /\ nextId \in Nat
      BY BoundsAssumption DEF StoreInv, BaseInv, TypeOK, Actors
  <2>2. BackupEntry(entry[w], "skipped", RootDir).status = "skipped"
      BY <2>1, NewRow DEF Statuses
  <2>3. /\ clock' = clock /\ Created(rows)' = Created(rows)
        /\ Created(recorded)' = Created(recorded)
      BY <1>1, <2>2 DEF InsertSkipped, Insert, Created
  <2> QED
      BY <2>3, RefineSkip
<1>2. ASSUME NEW w \in Runners, InsertCreated(w) PROVE Store!Next
    BY <1>2, RefineInsert
<1>3. ASSUME NEW w \in Schedulers, DeleteRow(w) PROVE Store!Next
  <2>1. /\ rows' \subseteq rows /\ recorded' = recorded /\ clock' = clock
        /\ \A r \in rows \ rows' : r.status = "created" /\ PastRetention(r)
      BY <1>0, <1>3 DEF DeleteRow, BaseInv, DoomedInv, Created
  <2> QED
      BY <2>1, RefineDelete
<1>4. ASSUME NEW w \in Schedulers, DeleteReturning(w) PROVE Store!Next
  <2>1. /\ rows' \subseteq rows /\ recorded' = recorded /\ clock' = clock
        /\ \A r \in rows \ rows' : r.status = "created" /\ PastRetention(r)
      BY <1>0, <1>4, ExpiredArePast DEF DeleteReturning, Created
  <2> QED
      BY <2>1, RefineDelete
<1>5. CASE Tick
  <2>1. clock' = clock + 1 /\ rows' = rows /\ recorded' = recorded
      BY <1>5 DEF Tick, database
  <2>2. Catalog' = Catalog /\ Published' = Published
      BY <2>1 DEF CatalogHashed, Published, Hashed, Created
  <2> QED
      BY <2>1, <2>2 DEF Store!Next, Store!Advance
<1>6. CASE UNCHANGED ledger
  <2>1. /\ clock' = clock /\ Created(rows)' = Created(rows)
        /\ Created(recorded)' = Created(recorded)
      BY <1>6 DEF ledger, Created
  <2> QED
      BY <2>1, RefineSkip
<1> QED
    BY <1>1, <1>2, <1>3, <1>4, <1>5, <1>6, LedgerSteps

\* If no two runs start within one second, the repository, with all its
\* tasks, crashes and non-atomic steps, implements SnapshotStore: a store of
\* immutable snapshots that appear whole and leave only when they expire.
THEOREM Refinement ==
    ASSUME ~SharedSeconds
    PROVE  Spec => ImplementsSnapshotStore
<1>1. Init => Store!Init
    BY DEF Init, Store!Init, Catalog, Published, Created
<1>2. StoreInv /\ CatalogHashed /\ CatalogHashed' /\ [Next]_vars
        => [Store!Next]_(Store!vars)
    BY RefineNext
<1> QED
    BY <1>1, <1>2, CatalogIsHashed, AlwaysStore, PTL
    DEF Spec, ImplementsSnapshotStore, Store!Spec

-----------------------------------------------------------------------------
(***************************************************************************)
(* No directory is left behind.                                            *)
(***************************************************************************)

\* Where a scheduler has a list of directories to remove.
ListLocations == {"delete", "rmdir", "unlink"}

\* A list lives from the SELECT or DELETE that makes it to the end of the loop,
\* and only SQLite deletes its rows one by one.
ListsInv ==
    \A w \in Schedulers :
        /\ pc[w] \notin ListLocations => doomed[w] = {}
        /\ pc[w] = "delete" => backend = "sqlite"

\* A run finds no directory of its name.
FreshInv ==
    /\ \A d \in Dirs : payload[d] # NoDir => \E v \in Runners : d <= stamp[v]
    /\ \A w \in Runners : pc[w] \in {"check", "skip", "mkdir"} =>
            payload[entry[w].timestamp_dir] = NoDir

\* No two schedulers remove the same directory, so the one that found it still
\* finds it when it removes it.
ApartInv ==
    ListsDisjoint =>
        /\ \A v, w \in Schedulers : \A r \in doomed[v] : r \in doomed[w] => v = w
        /\ \A w \in Schedulers : pc[w] = "unlink" =>
                payload[entry[w].timestamp_dir] # NoDir

\* A backup without a row is on a list until its directory is gone.
ListedInv ==
    faults = 0 /\ ListsDisjoint =>
        \A r \in Created(recorded) :
            \/ r \in rows
            \/ payload[r.timestamp_dir] = NoDir
            \/ \E v \in Schedulers : r \in doomed[v]

\* All that the absence of orphans rests on.
OrphanInv == ListsInv /\ FreshInv /\ ApartInv /\ ListedInv /\ NoOrphans

\* The store in use is never changed.
LEMMA SameBackend == [Next]_vars => backend' = backend
<1> SUFFICES ASSUME [Next]_vars PROVE backend' = backend
    OBVIOUS
<1> USE DEF database
<1>1. ASSUME NEW w \in Runners, RunOnce(w) PROVE backend' = backend
    BY <1>1 DEF RunOnce, BeginRun, FindUnchanged, FindChanged, InsertSkipped,
                Insert, MakeDir, CreatePayload, FillPayload, StatsOk, StatsError,
                InsertCreated, WriteManifest, DirectoryGone
<1>2. ASSUME NEW a \in Actors, WritePointer(a) PROVE backend' = backend
    BY <1>2 DEF WritePointer, OpenPointer, FillPointer, RenamePointer,
                RenamePointerError
<1>3. ASSUME NEW w \in Schedulers, Prune(w) PROVE backend' = backend
    BY <1>3 DEF Prune, PruneNothing, SelectDoomed, DeleteRow, DeletesDone,
                DeleteReturning, CheckDir, UnlinkDir, UnlinkError, PruneDone
<1>4. ASSUME NEW h \in Handlers, Handle(h) PROVE backend' = backend
    BY <1>4 DEF Handle, Rollback, Download, Lookup, RecordEvent, ReadPayload,
                ReadError
<1>5. ASSUME NEW a \in Actors, Crash(a) PROVE backend' = backend
    BY <1>5 DEF Crash, Abandon
<1>6. ASSUME NEW w \in Schedulers, RunFails(w) PROVE backend' = backend
    BY <1>6 DEF RunFails, Abandon
<1>7. Tick \/ UNCHANGED vars => backend' = backend
    BY DEF Tick, vars
<1> HIDE DEF database
<1> QED
    BY <1>1, <1>2, <1>3, <1>4, <1>5, <1>6, <1>7 DEF Next

\* A scheduler's list changes only by its own pruning, or is lost with it.
LEMMA ListSteps ==
    ASSUME BaseInv, [Next]_vars, NEW v \in Schedulers
    PROVE  \/ Prune(v)
           \/ faults' = faults + 1 /\ doomed'[v] = {} /\ pc'[v] \in {"idle", "prune"}
           \/ /\ doomed'[v] = doomed[v]
              /\ pc[v] \in ListLocations => pc'[v] = pc[v] /\ entry'[v] = entry[v]
              /\ pc'[v] \in ListLocations => pc'[v] = pc[v] /\ entry'[v] = entry[v]
<1> DEFINE Same ==
        /\ doomed'[v] = doomed[v]
        /\ pc[v] \in ListLocations => pc'[v] = pc[v] /\ entry'[v] = entry[v]
        /\ pc'[v] \in ListLocations => pc'[v] = pc[v] /\ entry'[v] = entry[v]
<1> USE DEF Goto, EndRun, ListLocations
<1>0. /\ pc \in [Actors -> Locations] /\ entry \in [Actors -> Entries]
      /\ doomed \in [Schedulers -> SUBSET Entries]
      /\ v \in Runners /\ v \in Actors /\ v \notin Handlers
    BY ActorsAssumption DEF BaseInv, TypeOK, Runners, Actors
<1>1. ASSUME NEW w \in Runners, RunOnce(w) PROVE Same
    BY <1>0, <1>1
    DEF RunOnce, BeginRun, FindUnchanged, FindChanged, InsertSkipped, MakeDir,
        CreatePayload, FillPayload, StatsOk, StatsError, InsertCreated,
        WriteManifest, DirectoryGone
<1>2. ASSUME NEW a \in Actors, WritePointer(a) PROVE Same
    BY <1>0, <1>2
    DEF WritePointer, OpenPointer, FillPointer, RenamePointer, RenamePointerError
<1>3. ASSUME NEW w \in Schedulers, w # v, Prune(w) PROVE Same
    BY <1>0, <1>3
    DEF Prune, PruneNothing, SelectDoomed, DeleteRow, DeletesDone,
        DeleteReturning, CheckDir, UnlinkDir, UnlinkError, PruneDone
<1>4. ASSUME NEW h \in Handlers, Handle(h) PROVE Same
    BY <1>0, <1>4
    DEF Handle, Rollback, Download, Lookup, RecordEvent, ReadPayload, ReadError
<1>5. ASSUME NEW a \in Actors, NEW l \in {"idle", "prune"}, Abandon(a, l)
      PROVE  \/ Same
             \/ faults' = faults + 1 /\ doomed'[v] = {} /\ pc'[v] \in {"idle", "prune"}
    BY <1>0, <1>5 DEF Abandon
<1>6. ASSUME NEW a \in Actors, Crash(a)
      PROVE  \/ Same
             \/ faults' = faults + 1 /\ doomed'[v] = {} /\ pc'[v] \in {"idle", "prune"}
    BY <1>5, <1>6 DEF Crash
<1>7. ASSUME NEW w \in Schedulers, RunFails(w)
      PROVE  \/ Same
             \/ faults' = faults + 1 /\ doomed'[v] = {} /\ pc'[v] \in {"idle", "prune"}
    BY <1>5, <1>7 DEF RunFails, Actors, Runners
<1>8. Tick \/ UNCHANGED vars => Same
    BY DEF Tick, vars
<1> HIDE DEF Same, Goto, EndRun, ListLocations
<1>9. \/ Prune(v) \/ Same
      \/ faults' = faults + 1 /\ doomed'[v] = {} /\ pc'[v] \in {"idle", "prune"}
    BY <1>1, <1>2, <1>3, <1>4, <1>6, <1>7, <1>8 DEF Next
<1> QED
    BY <1>9 DEF Same

\* Every step preserves ListsInv.
LEMMA ListsNext ==
    ASSUME BaseInv, ListsInv, [Next]_vars
    PROVE  ListsInv'
<1> SUFFICES ASSUME NEW v \in Schedulers
             PROVE  /\ pc'[v] \notin ListLocations => doomed'[v] = {}
                    /\ pc'[v] = "delete" => backend' = "sqlite"
    BY DEF ListsInv
<1>0. /\ pc \in [Actors -> Locations] /\ v \in Actors
      /\ doomed \in [Schedulers -> SUBSET Entries]
    BY DEF BaseInv, TypeOK, Runners, Actors
<1>1. CASE Prune(v)
    BY <1>0, <1>1, SameBackend
    DEF ListsInv, ListLocations, Prune, PruneNothing, SelectDoomed, DeleteRow,
        DeletesDone, DeleteReturning, CheckDir, UnlinkDir, UnlinkError,
        PruneDone, Goto
<1>2. CASE doomed'[v] = {} /\ pc'[v] \in {"idle", "prune"}
    BY <1>2 DEF ListLocations
<1>3. CASE /\ doomed'[v] = doomed[v]
           /\ pc[v] \in ListLocations => pc'[v] = pc[v] /\ entry'[v] = entry[v]
           /\ pc'[v] \in ListLocations => pc'[v] = pc[v] /\ entry'[v] = entry[v]
    BY <1>3, SameBackend DEF ListsInv, ListLocations
<1> QED
    BY <1>1, <1>2, <1>3, ListSteps

\* Who moves a run: its own steps, a fault, or nobody.
LEMMA RunnerSteps ==
    ASSUME BaseInv, [Next]_vars, NEW v \in Runners
    PROVE  \/ RunOnce(v) \/ WritePointer(v)
           \/ v \in Schedulers /\ Prune(v)
           \/ faults' = faults + 1 /\ pc'[v] \in {"idle", "prune"}
           \/ pc'[v] = pc[v] /\ entry'[v] = entry[v]
<1> DEFINE Same == pc'[v] = pc[v] /\ entry'[v] = entry[v]
           Lost == faults' = faults + 1 /\ pc'[v] \in {"idle", "prune"}
<1> USE DEF Goto, EndRun
<1>0. /\ pc \in [Actors -> Locations] /\ entry \in [Actors -> Entries]
      /\ v \in Actors /\ v \notin Handlers
    BY ActorsAssumption DEF BaseInv, TypeOK, Runners, Actors
<1>1. ASSUME NEW w \in Runners, w # v, RunOnce(w) PROVE Same
    BY <1>0, <1>1
    DEF RunOnce, BeginRun, FindUnchanged, FindChanged, InsertSkipped, MakeDir,
        CreatePayload, FillPayload, StatsOk, StatsError, InsertCreated,
        WriteManifest, DirectoryGone
<1>2. ASSUME NEW a \in Actors, a # v, WritePointer(a) PROVE Same
    BY <1>0, <1>2
    DEF WritePointer, OpenPointer, FillPointer, RenamePointer, RenamePointerError
<1>3. ASSUME NEW w \in Schedulers, w # v, Prune(w) PROVE Same
    BY <1>0, <1>3
    DEF Prune, PruneNothing, SelectDoomed, DeleteRow, DeletesDone,
        DeleteReturning, CheckDir, UnlinkDir, UnlinkError, PruneDone
<1>4. ASSUME NEW h \in Handlers, Handle(h) PROVE Same
    BY <1>0, <1>4
    DEF Handle, Rollback, Download, Lookup, RecordEvent, ReadPayload, ReadError
<1>5. ASSUME NEW a \in Actors, NEW l \in {"idle", "prune"}, Abandon(a, l)
      PROVE  Same \/ Lost
    BY <1>0, <1>5 DEF Abandon
<1>6. ASSUME NEW a \in Actors, Crash(a) PROVE Same \/ Lost
    BY <1>5, <1>6 DEF Crash
<1>7. ASSUME NEW w \in Schedulers, RunFails(w) PROVE Same \/ Lost
    BY <1>5, <1>7 DEF RunFails, Actors, Runners
<1>8. Tick \/ UNCHANGED vars => Same
    BY DEF Tick, vars
<1> HIDE DEF Same, Lost, Goto, EndRun
<1>9. RunOnce(v) \/ WritePointer(v) \/ (v \in Schedulers /\ Prune(v)) \/ Same \/ Lost
    BY <1>1, <1>2, <1>3, <1>4, <1>6, <1>7, <1>8 DEF Next
<1> QED
    BY <1>9 DEF Same, Lost

\* Drafts have no other owner of their directory, recorded backups neither.
LEMMA NotADraft ==
    ASSUME BaseInv, OwnerInv, NEW r \in Created(recorded), NEW w \in Runners,
           MakeDir(w) \/ CreatePayload(w) \/ FillPayload(w)
    PROVE  entry[w].timestamp_dir # r.timestamp_dir
BY DEF MakeDir, CreatePayload, FillPayload, DraftLocations, OwnerInv

\* Every step preserves that a run finds no directory of its name.
LEMMA FreshNext ==
    ASSUME BaseInv, OwnerInv, FreshInv, ~SharedSeconds, [Next]_vars
    PROVE  FreshInv'
<1>0. /\ pc \in [Actors -> Locations] /\ entry \in [Actors -> Entries]
      /\ stamp \in [Runners -> Int] /\ Runners \subseteq Actors
      /\ payload \in [Dirs -> Contents \cup {NoDir, NoFile, EmptyFile, TornFile}]
    BY DEF BaseInv, TypeOK, Runners, Actors
<1>1. \A d \in Dirs : d \in Nat
    BY DirsAreNat
<1>2. ASSUME NEW w \in Runners, NEW c \in Contents, BeginRun(w, c)
      PROVE  /\ payload' = payload
             /\ pc' = [pc EXCEPT ![w] = "check"]
             /\ \A v \in Runners \ {w} : entry'[v] = entry[v]
             /\ entry'[w].timestamp_dir = SecondOf(clock)
             /\ SecondOf(clock) \in Dirs
             /\ \A v \in Runners : stamp'[v] >= stamp[v] /\ SecondOf(clock) > stamp[v]
  <2>1. PICK d : d = SecondOf(clock) /\ d \in Dirs /\ d \in Nat
      BY SecondIsDir, DirsAreNat DEF BaseInv, TypeOK
  <2>2. \A v \in Runners : d > stamp[v]
      BY <1>2, <2>1 DEF BeginRun, MayStart
  <2>3. /\ stamp' = [stamp EXCEPT ![w] = d]
        /\ pc' = [pc EXCEPT ![w] = "check"]
        /\ entry'[w].timestamp_dir = d
        /\ \A v \in Runners \ {w} : entry'[v] = entry[v]
        /\ payload' = payload
      BY <1>0, <1>2, <2>1 DEF BeginRun, Goto, files
  <2>4. \A v \in Runners : stamp'[v] >= stamp[v]
      BY <1>0, <2>1, <2>2, <2>3
  <2> QED
      BY <2>1, <2>2, <2>3, <2>4
<1>3. \A v \in Runners : stamp'[v] \in Int /\ stamp'[v] >= stamp[v]
  <2>1. stamp' \in [Runners -> Int]
      BY BaseNext DEF BaseInv, TypeOK
  <2>2. ASSUME NEW w \in Runners, InsertCreated(w) PROVE stamp' = stamp
      BY <2>2 DEF InsertCreated, history
  <2>3. OwnerFrame => stamp' = stamp
      BY DEF OwnerFrame
  <2> QED
      BY <1>0, <1>2, <2>1, <2>2, <2>3, OwnerSteps
<1>4. ASSUME NEW d \in Dirs, payload'[d] # NoDir
      PROVE  \E v \in Runners : d <= stamp'[v]
  <2>1. CASE payload'[d] = payload[d]
    <3>1. PICK v \in Runners : d <= stamp[v]
        BY <1>4, <2>1 DEF FreshInv
    <3> QED
        BY <1>0, <1>1, <1>3, <3>1
  <2>2. ASSUME NEW w \in Runners, MakeDir(w) \/ CreatePayload(w) \/ FillPayload(w),
               entry[w].timestamp_dir = d
        PROVE  \E v \in Runners : d <= stamp'[v]
    <3>1. stamp[w] = d
        BY <2>2 DEF MakeDir, CreatePayload, FillPayload, DraftLocations, OwnerInv
    <3> QED
        BY <1>0, <1>1, <1>3, <3>1
  <2>3. ASSUME NEW w \in Schedulers, UnlinkDir(w), entry[w].timestamp_dir = d
        PROVE  FALSE
      BY <1>4, <2>3 DEF UnlinkDir, RemoveDir
  <2> QED
      BY <2>1, <2>2, <2>3, PayloadSteps
<1>5. ASSUME NEW v \in Runners, pc'[v] \in {"check", "skip", "mkdir"}
      PROVE  payload'[entry'[v].timestamp_dir] = NoDir
  <2>1. ASSUME NEW c \in Contents, BeginRun(v, c)
        PROVE  payload'[entry'[v].timestamp_dir] = NoDir
    <3>1. PICK d \in Dirs : d = SecondOf(clock)
        BY <1>2, <2>1
    <3>2. \A u \in Runners : d > stamp[u]
        BY <1>2, <2>1, <3>1
    <3>3. payload[d] = NoDir
        BY <1>0, <1>1, <3>2 DEF FreshInv
    <3> QED
        BY <1>2, <2>1, <3>1, <3>3
  <2>2. CASE ~\E c \in Contents : BeginRun(v, c)
    <3>1. pc[v] \in {"check", "skip", "mkdir"} /\ entry'[v] = entry[v] /\ ~MakeDir(v)
      <4>1. CASE RunOnce(v)
          BY <1>0, <1>5, <2>2, <4>1
          DEF RunOnce, FindUnchanged, FindChanged, InsertSkipped, MakeDir,
              CreatePayload, FillPayload, StatsOk, StatsError, InsertCreated,
              WriteManifest, DirectoryGone, Goto, EndRun
      <4>2. ~WritePointer(v) /\ ~(v \in Schedulers /\ Prune(v))
          BY <1>0, <1>5
          DEF WritePointer, OpenPointer, FillPointer, RenamePointer,
              RenamePointerError, Prune, PruneNothing, SelectDoomed, DeleteRow,
              DeletesDone, DeleteReturning, CheckDir, UnlinkDir, UnlinkError,
              PruneDone, Goto, EndRun
      <4>3. CASE pc'[v] = pc[v] /\ entry'[v] = entry[v]
          BY <1>0, <1>5, <4>3 DEF MakeDir, Goto
      <4> QED
          BY <1>5, <4>1, <4>2, <4>3, RunnerSteps
    <3>2. /\ pc[v] \in DraftLocations /\ entry[v].timestamp_dir \in Dirs
          /\ payload[entry[v].timestamp_dir] = NoDir
        BY <3>1 DEF DraftLocations, BaseInv, WorkInv, FreshInv
    <3>3. PICK d \in Dirs : d = entry[v].timestamp_dir
        BY <3>2
    <3>4. ASSUME NEW w \in Runners, MakeDir(w) \/ CreatePayload(w) \/ FillPayload(w),
                 entry[w].timestamp_dir = d
          PROVE  FALSE
      <4>1. w # v
          BY <3>1, <3>4 DEF CreatePayload, FillPayload
      <4>2. pc[w] \in DraftLocations
          BY <3>4 DEF MakeDir, CreatePayload, FillPayload, DraftLocations
      <4> QED
          BY <3>2, <3>3, <3>4, <4>1, <4>2 DEF OwnerInv
    <3>5. ASSUME NEW w \in Schedulers, UnlinkDir(w), entry[w].timestamp_dir = d
          PROVE  payload'[d] = NoDir
        BY <3>5 DEF UnlinkDir, RemoveDir
    <3> QED
        BY <3>1, <3>2, <3>3, <3>4, <3>5, PayloadSteps
  <2> QED
      BY <2>1, <2>2
<1> QED
    BY <1>4, <1>5 DEF FreshInv

\* Every step preserves that no two schedulers remove the same directory.
LEMMA ApartNext ==
    ASSUME BaseInv, OwnerInv, ListsInv, ApartInv, [Next]_vars
    PROVE  ApartInv'
<1> SUFFICES ASSUME ListsDisjoint
             PROVE  /\ \A v, w \in Schedulers :
                            \A r \in doomed'[v] : r \in doomed'[w] => v = w
                    /\ \A w \in Schedulers : pc'[w] = "unlink" =>
                            payload'[entry'[w].timestamp_dir] # NoDir
    BY SameBackend DEF ApartInv, ListsDisjoint
<1>0. /\ pc \in [Actors -> Locations] /\ entry \in [Actors -> Entries]
      /\ doomed \in [Schedulers -> SUBSET Entries]
      /\ Schedulers \subseteq Runners /\ Schedulers \subseteq Actors
      /\ backend \in {"sqlite", "postgres"}
    BY BackendsAssumption DEF BaseInv, TypeOK, Runners, Actors
<1>1. ASSUME NEW v \in Schedulers, backend = "postgres", ~DeleteReturning(v)
      PROVE  doomed'[v] \subseteq doomed[v]
  <2>1. CASE Prune(v)
      BY <1>0, <1>1, <2>1
      DEF Prune, PruneNothing, SelectDoomed, DeleteRow, DeletesDone, CheckDir,
          UnlinkDir, UnlinkError, PruneDone
  <2> QED
      BY <2>1, ListSteps
<1>2. ASSUME NEW v \in Schedulers, NEW w \in Schedulers, v # w,
             backend = "postgres", DeleteReturning(v)
      PROVE  \A r \in doomed'[v] : r \notin doomed'[w]
  <2>1. doomed'[v] = Expired /\ doomed'[w] = doomed[w]
      BY <1>0, <1>2 DEF DeleteReturning
  <2>2. Expired \subseteq rows
      BY DEF Expired, Created
  <2>3. doomed[w] # {} => pc[w] \in {"rmdir", "unlink"}
      BY <1>2 DEF ListsInv, ListLocations
  <2>4. doomed[w] \cap rows = {}
      BY <2>3 DEF BaseInv, DoomedInv
  <2> QED
      BY <2>1, <2>2, <2>4
<1>3. ASSUME NEW v \in Schedulers, NEW w \in Schedulers,
             NEW r \in doomed'[v], r \in doomed'[w]
      PROVE  v = w
  <2>1. CASE backend = "sqlite"
      BY <2>1 DEF ListsDisjoint
  <2>2. CASE backend = "postgres" /\ v # w
    <3>1. ~DeleteReturning(v) /\ ~DeleteReturning(w)
        BY <1>2, <1>3, <2>2
    <3>2. r \in doomed[v] /\ r \in doomed[w]
        BY <1>1, <1>3, <2>2, <3>1
    <3> QED
        BY <3>2 DEF ApartInv
  <2> QED
      BY <1>0, <2>1, <2>2
<1>4. ASSUME NEW w \in Schedulers, pc'[w] = "unlink"
      PROVE  payload'[entry'[w].timestamp_dir] # NoDir
  <2>1. CASE Prune(w)
    <3>1. CASE CheckDir(w)
      <4>1. PICK r \in doomed[w] : /\ DirExists(r.timestamp_dir)
                                   /\ entry' = [entry EXCEPT ![w] = r]
          BY <1>0, <1>4, <3>1 DEF CheckDir, Goto
      <4>2. r.timestamp_dir # RootDir
        <5>1. r.timestamp_dir \in Dirs
            BY DEF BaseInv, DoomedInv, LedgerInv
        <5> QED
            BY <5>1, DirsAreNat DEF RootDir
      <4>3. payload' = payload /\ entry'[w] = r
          BY <1>0, <3>1, <4>1 DEF CheckDir, files
      <4> QED
          BY <4>1, <4>2, <4>3 DEF DirExists
    <3>2. ~(PruneNothing(w) \/ SelectDoomed(w) \/ DeleteRow(w) \/ DeletesDone(w)
              \/ DeleteReturning(w) \/ UnlinkDir(w) \/ UnlinkError(w) \/ PruneDone(w))
        BY <1>0, <1>4
        DEF PruneNothing, SelectDoomed, DeleteRow, DeletesDone, DeleteReturning,
            UnlinkDir, UnlinkError, PruneDone, Goto
    <3> QED
        BY <2>1, <3>1, <3>2 DEF Prune
  <2>2. CASE pc[w] = "unlink" /\ entry'[w] = entry[w]
    <3>1. /\ entry[w] \in doomed[w] /\ entry[w] \in Created(recorded)
          /\ entry[w].timestamp_dir \in Dirs
          /\ payload[entry[w].timestamp_dir] # NoDir
        BY <2>2 DEF BaseInv, DoomedInv, LedgerInv, ApartInv
    <3>2. PICK d \in Dirs : d = entry[w].timestamp_dir
        BY <3>1
    <3>3. ASSUME NEW u \in Schedulers, UnlinkDir(u), entry[u].timestamp_dir = d
          PROVE  FALSE
      <4>1. entry[u] \in doomed[u] /\ entry[u] \in Created(recorded)
          BY <3>3 DEF UnlinkDir, BaseInv, DoomedInv
      <4>2. entry[u] = entry[w]
          BY <3>1, <3>2, <3>3, <4>1 DEF OwnerInv
      <4>3. u = w
          BY <3>1, <4>1, <4>2 DEF ApartInv
      <4> QED
          BY <1>0, <1>4, <3>3, <4>3 DEF UnlinkDir, Goto
    <3>4. payload'[d] = payload[d]
        BY <3>1, <3>2, <3>3, PayloadSteps, NotADraft
    <3> QED
        BY <2>2, <3>1, <3>2, <3>4
  <2> QED
      BY <1>4, <2>1, <2>2, ListSteps DEF ListLocations
<1> QED
    BY <1>3, <1>4

\* Faults are only counted.
LEMMA FaultSteps ==
    ASSUME BaseInv, [Next]_vars, faults' = 0
    PROVE  faults = 0
<1> USE DEF history
<1>0. faults \in Nat
    BY BoundsAssumption DEF BaseInv, TypeOK
<1>1. ASSUME NEW w \in Runners, RunOnce(w) PROVE faults' = faults
    BY <1>1 DEF RunOnce, BeginRun, FindUnchanged, FindChanged, InsertSkipped,
                MakeDir, CreatePayload, FillPayload, StatsOk, StatsError,
                InsertCreated, WriteManifest, DirectoryGone
<1>2. ASSUME NEW a \in Actors, WritePointer(a) PROVE faults' = faults
    BY <1>2 DEF WritePointer, OpenPointer, FillPointer, RenamePointer,
                RenamePointerError
<1>3. ASSUME NEW w \in Schedulers, Prune(w) PROVE faults' = faults
    BY <1>3 DEF Prune, PruneNothing, SelectDoomed, DeleteRow, DeletesDone,
                DeleteReturning, CheckDir, UnlinkDir, UnlinkError, PruneDone
<1>4. ASSUME NEW h \in Handlers, Handle(h) PROVE faults' = faults
    BY <1>4 DEF Handle, Rollback, Download, Lookup, RecordEvent, ReadPayload,
                ReadError
<1>5. ASSUME NEW a \in Actors, NEW l, Abandon(a, l) PROVE FALSE
  <2>1. faults' = faults + 1
      BY <1>5, Zenon DEF Abandon
  <2> QED
      BY <1>0, <2>1
<1>6. Tick \/ UNCHANGED vars => faults' = faults
    BY DEF Tick, vars
<1> HIDE DEF history
<1>7. \A a \in Actors : ~Crash(a)
    BY <1>5 DEF Crash
<1>8. \A w \in Schedulers : ~RunFails(w)
    BY <1>5 DEF RunFails, Actors, Runners
<1> QED
    BY <1>1, <1>2, <1>3, <1>4, <1>6, <1>7, <1>8 DEF Next

\* Every step preserves that a backup without a row is on a list.
LEMMA ListedNext ==
    ASSUME BaseInv, OwnerInv, ListsInv, ApartInv, ListedInv, [Next]_vars
    PROVE  ListedInv'
<1> SUFFICES ASSUME faults' = 0, ListsDisjoint, NEW r \in Created(recorded)'
             PROVE  \/ r \in rows'
                    \/ payload'[r.timestamp_dir] = NoDir
                    \/ \E v \in Schedulers : r \in doomed'[v]
    BY SameBackend DEF ListedInv, ListsDisjoint
<1>0. /\ pc \in [Actors -> Locations] /\ entry \in [Actors -> Entries]
      /\ doomed \in [Schedulers -> SUBSET Entries]
      /\ Schedulers \subseteq Runners /\ Schedulers \subseteq Actors
      /\ faults = 0
    BY FaultSteps DEF BaseInv, TypeOK, Runners, Actors
<1>1. CASE r \notin Created(recorded)
  <2>1. ASSUME NEW w \in Runners, InsertCreated(w) PROVE r \in rows'
      BY <1>1, <2>1 DEF InsertCreated, Insert, Created
  <2>2. ASSUME NEW w \in Runners, NEW c \in Contents, BeginRun(w, c) PROVE FALSE
      BY <1>1, <2>2 DEF BeginRun, database, Created
  <2> QED
      BY <1>1, <2>1, <2>2, OwnerSteps DEF OwnerFrame
<1>2. CASE r \in Created(recorded) /\ r \in rows
  <2>1. ASSUME NEW w \in Schedulers, DeleteRow(w)
        PROVE  r \in rows' \/ r \in doomed'[w]
      BY <1>2, <2>1 DEF DeleteRow
  <2>2. ASSUME NEW w \in Schedulers, DeleteReturning(w)
        PROVE  r \in rows' \/ r \in doomed'[w]
      BY <1>0, <1>2, <2>2 DEF DeleteReturning
  <2>3. ASSUME NEW w \in Runners, InsertSkipped(w) \/ InsertCreated(w)
        PROVE  r \in rows'
      BY <1>2, <2>3 DEF InsertSkipped, InsertCreated, Insert
  <2>4. Tick \/ UNCHANGED ledger => r \in rows'
      BY <1>2 DEF Tick, ledger, database
  <2> QED
      BY <2>1, <2>2, <2>3, <2>4, LedgerSteps
<1>3. CASE r \in Created(recorded) /\ payload[r.timestamp_dir] = NoDir
  <2>1. PICK d \in Dirs : d = r.timestamp_dir
      BY <1>3 DEF BaseInv, LedgerInv
  <2>2. ASSUME NEW w \in Schedulers, UnlinkDir(w), entry[w].timestamp_dir = d
        PROVE  payload'[d] = NoDir
      BY <2>2 DEF UnlinkDir, RemoveDir
  <2> QED
      BY <1>3, <2>1, <2>2, PayloadSteps, NotADraft
<1>4. ASSUME r \in Created(recorded), NEW v \in Schedulers, r \in doomed[v]
      PROVE  r \in doomed'[v] \/ payload'[r.timestamp_dir] = NoDir
  <2>0. r.timestamp_dir \in Dirs
      BY <1>4 DEF BaseInv, LedgerInv
  <2>1. CASE Prune(v)
    <3>1. CASE PruneNothing(v) \/ DeleteRow(v) \/ DeletesDone(v) \/ PruneDone(v)
        BY <1>4, <3>1 DEF PruneNothing, DeleteRow, DeletesDone, PruneDone
    <3>2. ~SelectDoomed(v) /\ ~DeleteReturning(v)
        BY <1>4 DEF SelectDoomed, DeleteReturning, ListsInv, ListLocations
    <3>3. CASE CheckDir(v)
        BY <1>0, <1>4, <3>3 DEF CheckDir, DirExists, files
    <3>4. CASE UnlinkDir(v)
        BY <1>0, <1>4, <2>0, <3>4 DEF UnlinkDir, RemoveDir
    <3>5. ~UnlinkError(v)
        BY DEF UnlinkError, DirExists, ApartInv
    <3> QED
        BY <2>1, <3>1, <3>2, <3>3, <3>4, <3>5 DEF Prune
  <2>2. CASE /\ doomed'[v] = doomed[v]
             /\ pc[v] \in ListLocations => pc'[v] = pc[v] /\ entry'[v] = entry[v]
             /\ pc'[v] \in ListLocations => pc'[v] = pc[v] /\ entry'[v] = entry[v]
      BY <1>4, <2>2
  <2>3. faults' # faults + 1
      BY <1>0
  <2> QED
      BY <2>1, <2>2, <2>3, ListSteps
<1> QED
    BY <1>0, <1>1, <1>2, <1>3, <1>4 DEF ListedInv

\* Every step preserves NoOrphans: a directory whose run has ended has a row,
\* or is on a list since its row was deleted.
LEMMA OrphansNext ==
    ASSUME BaseInv, OwnerInv, ContentInv, FreshInv, NoOrphans, ListedInv', [Next]_vars
    PROVE  NoOrphans'
<1> DEFINE Covered(d) ==
        \/ \E r \in Created(rows) : r.timestamp_dir = d
        \/ \E w \in Runners : pc[w] \in RunLocations /\ entry[w].timestamp_dir = d
        \/ \E w \in Schedulers : \E r \in doomed[w] : r.timestamp_dir = d
<1> SUFFICES ASSUME faults' = 0, ListsDisjoint, NEW d \in Dirs,
                    payload'[d] \notin Malformed \cup {NoDir}
             PROVE  Covered(d)'
    BY SameBackend DEF NoOrphans, ListsDisjoint
<1>0. /\ pc \in [Actors -> Locations] /\ entry \in [Actors -> Entries]
      /\ Runners \subseteq Actors /\ faults = 0
    BY FaultSteps DEF BaseInv, TypeOK, Actors
<1>1. ASSUME NEW r \in Created(recorded), r.timestamp_dir = d
      PROVE  Covered(d)'
  <2>1. r \in Created(recorded)' /\ r.status = "created"
      BY Monotone DEF Created
  <2>2. \/ r \in rows'
        \/ payload'[r.timestamp_dir] = NoDir
        \/ \E v \in Schedulers : r \in doomed'[v]
      BY <2>1, SameBackend DEF ListedInv, ListsDisjoint
  <2> QED
      BY <1>1, <2>1, <2>2 DEF Created
<1>2. ASSUME NEW w \in Runners, MakeDir(w) \/ CreatePayload(w) \/ FillPayload(w),
             entry[w].timestamp_dir = d
      PROVE  Covered(d)'
    BY <1>0, <1>2 DEF MakeDir, CreatePayload, FillPayload, Goto, RunLocations
<1>3. ASSUME NEW w \in Schedulers, UnlinkDir(w), entry[w].timestamp_dir = d
      PROVE  FALSE
    BY <1>3 DEF UnlinkDir, RemoveDir
<1>4. CASE payload'[d] = payload[d]
  <2>1. Covered(d)
      BY <1>0, <1>4 DEF NoOrphans
  <2>2. ASSUME NEW r \in Created(rows), r.timestamp_dir = d PROVE Covered(d)'
      BY <1>1, <2>2 DEF BaseInv, LedgerInv, Created
  <2>3. ASSUME NEW w \in Schedulers, NEW r \in doomed[w], r.timestamp_dir = d
        PROVE  Covered(d)'
      BY <1>1, <2>3 DEF BaseInv, DoomedInv
  <2>4. ASSUME NEW w \in Runners, pc[w] \in RunLocations, entry[w].timestamp_dir = d
        PROVE  Covered(d)'
    <3>1. CASE pc'[w] \in RunLocations /\ entry'[w].timestamp_dir = d
        BY <3>1
    <3>2. CASE RunOnce(w)
      <4>1. CASE InsertSkipped(w) \/ DirectoryGone(w)
          BY <1>4, <2>4, <4>1 DEF InsertSkipped, DirectoryGone, FreshInv
      <4>2. CASE StatsError(w)
        <5>1. payload[d] = entry[w].content_hash /\ entry[w].content_hash \in Contents
            BY <2>4, <4>2 DEF StatsError, ContentInv, BaseInv, WorkInv, DraftLocations
        <5> QED
            BY <1>4, <2>4, <4>2, <5>1 DEF StatsError
      <4>3. ~\E c \in Contents : BeginRun(w, c)
          BY <2>4 DEF BeginRun, RunLocations
      <4>4. CASE \/ FindUnchanged(w) \/ FindChanged(w) \/ MakeDir(w)
                 \/ CreatePayload(w) \/ FillPayload(w) \/ StatsOk(w)
                 \/ WriteManifest(w)
        <5>1. pc'[w] \in RunLocations /\ entry' = entry
            BY <1>0, <4>4
            DEF FindUnchanged, FindChanged, MakeDir, CreatePayload, FillPayload,
                StatsOk, WriteManifest, Goto, RunLocations
        <5> QED
            BY <2>4, <3>1, <5>1
      <4>5. CASE InsertCreated(w)
        <5>1. PICK r \in Entries : /\ r.timestamp_dir = entry[w].timestamp_dir
                                   /\ entry' = [entry EXCEPT ![w] = r]
            BY <4>5, InsertedBackup
        <5>2. pc'[w] = "manifest" /\ entry'[w].timestamp_dir = d
            BY <1>0, <2>4, <4>5, <5>1 DEF InsertCreated, Goto
        <5> QED
            BY <3>1, <5>2 DEF RunLocations
      <4> HIDE DEF Covered
      <4> QED
          BY <3>2, <4>1, <4>2, <4>3, <4>4, <4>5 DEF RunOnce
    <3>3. CASE WritePointer(w)
      <4>1. entry[w] \in Created(recorded)
          BY <3>3
          DEF WritePointer, OpenPointer, FillPointer, RenamePointer,
              RenamePointerError, BaseInv, WorkInv, PostLocations
      <4> QED
          BY <1>1, <2>4, <4>1
    <3>4. ~(w \in Schedulers /\ Prune(w))
        BY <2>4
        DEF RunLocations, Prune, PruneNothing, SelectDoomed, DeleteRow, DeletesDone,
            DeleteReturning, CheckDir, UnlinkDir, UnlinkError, PruneDone
    <3> HIDE DEF Covered
    <3>5. CASE pc'[w] = pc[w] /\ entry'[w] = entry[w]
        BY <2>4, <3>1, <3>5
    <3>6. faults' # faults + 1
        BY <1>0
    <3> QED
        BY <3>2, <3>3, <3>4, <3>5, <3>6, RunnerSteps
  <2> QED
      BY <2>1, <2>2, <2>3, <2>4
<1> HIDE DEF Covered
<1> QED
    BY <1>2, <1>3, <1>4, PayloadSteps

\* The whole invariant holds in an empty repository.
LEMMA OrphanInit == Init => OrphanInv
<1> SUFFICES ASSUME Init PROVE OrphanInv
    OBVIOUS
<1>1. \A w \in Runners : pc[w] = "idle"
    BY DEF Init, Actors
<1>2. \A w \in Schedulers : pc[w] = "idle" /\ doomed[w] = {}
    BY <1>1 DEF Init, Runners
<1>3. \A d \in Dirs : payload[d] = NoDir
    BY DEF Init
<1>4. Created(recorded) = {}
    BY DEF Init, Created
<1> QED
    BY <1>1, <1>2, <1>3, <1>4
    DEF OrphanInv, ListsInv, FreshInv, ApartInv, ListedInv, NoOrphans

\* Without faults every directory below backups/ belongs to a row, to a run in
\* progress or to a list of pruning, except for what extract_stats has rejected;
\* on SQLite for one scheduler, on Postgres for any number.
THEOREM Tidiness ==
    ASSUME ~SharedSeconds
    PROVE  Spec => []NoOrphans
<1>1. StoreInv /\ OrphanInv /\ [Next]_vars => OrphanInv'
    BY ListsNext, FreshNext, ApartNext, ListedNext, OrphansNext
    DEF StoreInv, OrphanInv
<1>2. OrphanInv => NoOrphans
    BY DEF OrphanInv
<1> QED
    BY <1>1, <1>2, OrphanInit, AlwaysStore, PTL DEF Spec

-----------------------------------------------------------------------------
(***************************************************************************)
(* One task that makes backups: the daemon's scheduler alone, or `run-once' *)
(* alone.  Any number of requests may go on beside it.                     *)
(***************************************************************************)

\* One task runs run_once, and it does so one run at a time.
SoleRunner == \E w : Runners = {w}

\* A directory is named after the second of created_at.  A run in progress is
\* later than every backup; what it has found out about the newest one still
\* holds at its INSERT, and from then on it has made the newest one itself.
SoleInv ==
    /\ \A r \in Created(recorded) : r.timestamp_dir = SecondOf(r.created_at)
    /\ \A w \in Runners :
        /\ pc[w] \in DraftLocations =>
            /\ entry[w].timestamp_dir = SecondOf(entry[w].created_at)
            /\ \A r \in Created(recorded) : r.created_at < entry[w].created_at
        /\ pc[w] = "skip" =>
            \E r \in LastCreated : r.content_hash = entry[w].content_hash
        /\ pc[w] \in DraftLocations \ {"check", "skip"} =>
            \A r \in LastCreated : r.content_hash # entry[w].content_hash
        /\ pc[w] \in PostLocations =>
            /\ entry[w] \in rows
            /\ \A q \in Created(recorded) : q = entry[w] \/ q.created_at < entry[w].created_at

\* Seconds do not decrease with time.
LEMMA SecondsGrow ==
    ASSUME NEW a \in Nat, NEW b \in Nat, SecondOf(a) < SecondOf(b)
    PROVE  a < b
<1>1. PICK T \in Nat \ {0} : T = TicksPerSecond
    BY BoundsAssumption
<1>2. PICK x, y : x = a \div T /\ y = b \div T
    OBVIOUS
<1>3. /\ x \in Int /\ y \in Int /\ x < y
      /\ T * x <= a /\ a < T * x + T /\ T * y <= b /\ b < T * y + T
    BY <1>1, <1>2 DEF SecondOf
<1>4. T * x + T <= T * y
    BY <1>3
<1> QED
    BY <1>3, <1>4

\* No two backups have the same created_at, so there is one newest backup.
LEMMA OneNewest ==
    ASSUME BaseInv, OwnerInv, SoleInv, NEW r \in LastCreated, NEW q \in LastCreated
    PROVE  r = q
<1>1. /\ r \in Created(recorded) /\ q \in Created(recorded)
      /\ r.created_at <= q.created_at /\ q.created_at <= r.created_at
    BY DEF LastCreated, Created, BaseInv, LedgerInv
<1>2. r.created_at \in Nat /\ q.created_at \in Nat
    BY <1>1 DEF BaseInv, TypeOK, Created, Entries
<1>3. r.created_at = q.created_at
    BY <1>1, <1>2
<1>4. r.timestamp_dir = q.timestamp_dir
    BY <1>1, <1>3, Zenon DEF SoleInv
<1> QED
    BY <1>1, <1>4, Zenon DEF OwnerInv

\* What a step does to the backups and to a run, as far as SoleInv is concerned.
SoleFrame(v) ==
    /\ Created(recorded)' = Created(recorded)
    /\ Created(rows)' = Created(rows)
    /\ pc'[v] \in DraftLocations => pc[v] \in DraftLocations /\ entry'[v] = entry[v]
    /\ pc'[v] = "skip" => pc[v] = "skip"
    /\ pc'[v] \in DraftLocations \ {"check", "skip"} =>
            pc[v] \in DraftLocations \ {"check", "skip"}
    /\ pc'[v] \in PostLocations => pc[v] \in PostLocations /\ entry'[v] = entry[v]

\* The steps of the sole run; everything else leaves its frame.
LEMMA SoleSteps ==
    ASSUME BaseInv, SoleRunner, [Next]_vars, NEW v \in Runners
    PROVE  \/ \E c \in Contents : BeginRun(v, c)
           \/ FindUnchanged(v) \/ FindChanged(v) \/ InsertCreated(v)
           \/ v \in Schedulers /\ (DeleteRow(v) \/ DeleteReturning(v))
           \/ SoleFrame(v)
<1> DEFINE Special == \/ \E c \in Contents : BeginRun(v, c)
                      \/ FindUnchanged(v) \/ FindChanged(v) \/ InsertCreated(v)
                      \/ v \in Schedulers /\ (DeleteRow(v) \/ DeleteReturning(v))
<1>0. /\ pc \in [Actors -> Locations] /\ entry \in [Actors -> Entries]
      /\ v \in Actors /\ v \in Schedulers \cup OneShots
    BY DEF BaseInv, TypeOK, Runners, Actors
<1>1. \/ Special
      \/ Created(recorded)' = Created(recorded) /\ Created(rows)' = Created(rows)
  <2>1. ASSUME NEW w \in Runners, InsertSkipped(w)
        PROVE  Created(recorded)' = Created(recorded) /\ Created(rows)' = Created(rows)
    <3>1. entry[w] \in Entries /\ nextId \in Nat
        BY BoundsAssumption DEF BaseInv, TypeOK, Actors
    <3>2. BackupEntry(entry[w], "skipped", RootDir).status = "skipped"
      <4>1. "skipped" \in Statuses /\ RootDir \in Dirs \cup {RootDir}
          BY DEF Statuses
      <4> QED
          BY <3>1, <4>1, NewRow
    <3> QED
        BY <2>1, <3>2 DEF InsertSkipped, Insert, Created
  <2>2. Tick \/ UNCHANGED ledger =>
            Created(recorded)' = Created(recorded) /\ Created(rows)' = Created(rows)
      BY DEF Tick, database, ledger, Created
  <2>3. \A w \in Runners : w = v
      BY DEF SoleRunner
  <2>4. \A w \in Schedulers : w = v
      BY <2>3 DEF Runners
  <2> QED
      BY <2>1, <2>2, <2>3, <2>4, LedgerSteps
<1>2. \/ Special
      \/ /\ pc'[v] \in DraftLocations => pc[v] \in DraftLocations /\ entry'[v] = entry[v]
         /\ pc'[v] = "skip" => pc[v] = "skip"
         /\ pc'[v] \in DraftLocations \ {"check", "skip"} =>
                pc[v] \in DraftLocations \ {"check", "skip"}
         /\ pc'[v] \in PostLocations => pc[v] \in PostLocations /\ entry'[v] = entry[v]
  <2> USE <1>0 DEF Goto, EndRun, DraftLocations, PostLocations
  <2>1. CASE RunOnce(v) /\ ~Special
    <3>1. CASE MakeDir(v) \/ CreatePayload(v) \/ FillPayload(v) \/ StatsOk(v)
        BY <3>1 DEF MakeDir, CreatePayload, FillPayload, StatsOk
    <3>2. CASE InsertSkipped(v) \/ StatsError(v) \/ DirectoryGone(v)
        BY <3>2 DEF InsertSkipped, StatsError, DirectoryGone
    <3>3. CASE WriteManifest(v)
        BY <3>3 DEF WriteManifest
    <3> QED
        BY <2>1, <3>1, <3>2, <3>3 DEF RunOnce
  <2>2. CASE WritePointer(v)
      BY <2>2
      DEF WritePointer, OpenPointer, FillPointer, RenamePointer, RenamePointerError
  <2>3. CASE v \in Schedulers /\ Prune(v)
      BY <2>3
      DEF Prune, PruneNothing, SelectDoomed, DeleteRow, DeletesDone,
          DeleteReturning, CheckDir, UnlinkDir, UnlinkError, PruneDone
  <2>4. CASE pc'[v] \in {"idle", "prune"}
      BY <2>4
  <2>5. CASE pc'[v] = pc[v] /\ entry'[v] = entry[v]
      BY <2>5
  <2> HIDE DEF Special, Goto, EndRun, DraftLocations, PostLocations
  <2> QED
      BY <2>1, <2>2, <2>3, <2>4, <2>5, RunnerSteps
<1> HIDE DEF Special
<1>3. Special \/ SoleFrame(v)
    BY <1>1, <1>2 DEF SoleFrame
<1> QED
    BY <1>3 DEF Special

\* Every step preserves SoleInv.
LEMMA SoleNext ==
    ASSUME BaseInv, OwnerInv, SoleInv, ~SharedSeconds, SoleRunner, [Next]_vars
    PROVE  SoleInv'
<1> DEFINE Named(S) == \A r \in S : r.timestamp_dir = SecondOf(r.created_at)
           Part(v) ==
        /\ pc[v] \in DraftLocations =>
            /\ entry[v].timestamp_dir = SecondOf(entry[v].created_at)
            /\ \A r \in Created(recorded) : r.created_at < entry[v].created_at
        /\ pc[v] = "skip" =>
            \E r \in LastCreated : r.content_hash = entry[v].content_hash
        /\ pc[v] \in DraftLocations \ {"check", "skip"} =>
            \A r \in LastCreated : r.content_hash # entry[v].content_hash
        /\ pc[v] \in PostLocations =>
            /\ entry[v] \in rows
            /\ \A q \in Created(recorded) : q = entry[v] \/ q.created_at < entry[v].created_at
<1>1. \E v : v \in Runners
    BY DEF SoleRunner
<1>2. ASSUME NEW v \in Runners PROVE Named(Created(recorded)') /\ Part(v)'
  <2>0. /\ pc \in [Actors -> Locations] /\ entry \in [Actors -> Entries] /\ v \in Actors
        /\ Named(Created(recorded)) /\ Part(v)
        /\ stamp \in [Runners -> Int]
      BY DEF BaseInv, TypeOK, Actors, SoleInv
  <2>1. \A r \in Created(recorded) :
            r \in Entries /\ r.created_at \in Nat /\ r.timestamp_dir \in Nat
      BY DirsAreNat DEF BaseInv, TypeOK, LedgerInv, Created, Entries
  <2>2. rows \subseteq recorded
      BY DEF BaseInv, LedgerInv
  <2>3. ASSUME Created(rows)' = Created(rows) PROVE LastCreated' = LastCreated
      BY <2>3 DEF LastCreated
  <2>4. ASSUME NEW c \in Contents, BeginRun(v, c)
        PROVE  Named(Created(recorded)') /\ Part(v)'
    <3>1. clock \in Nat /\ clock \in 0 .. MaxTime
        BY BoundsAssumption DEF BaseInv, TypeOK
    <3>2. entry'[v].created_at = clock /\ entry'[v].timestamp_dir = SecondOf(clock)
      <4>1. PICK d, e : d = SecondOf(clock) /\ e = entry'[v]
          OBVIOUS
      <4>2. entry'[v] = [id |-> 0, created_at |-> clock,
                         timestamp_dir |-> SecondOf(clock),
                         content_hash |-> c, status |-> "draft"]
          BY <2>0, <2>4 DEF BeginRun
      <4>3. e = [id |-> 0, created_at |-> clock, timestamp_dir |-> d,
                 content_hash |-> c, status |-> "draft"]
          BY <4>1, <4>2, Zenon
      <4>4. e.timestamp_dir = d /\ e.created_at = clock
          BY <4>3, DraftFields
      <4> QED
          BY <4>1, <4>4, Zenon
    <3>3. /\ pc'[v] = "check"
          /\ Created(recorded)' = Created(recorded)
          /\ Created(rows)' = Created(rows)
        BY <2>0, <2>4 DEF BeginRun, Goto, database, Created
    <3>4. ASSUME NEW r \in Created(recorded) PROVE r.created_at < clock
      <4>1. PICK u \in Runners : r.timestamp_dir <= stamp[u]
          BY DEF OwnerInv
      <4>2. SecondOf(clock) > stamp[u] /\ SecondOf(clock) \in Int
          BY <2>4, <3>1, SecondIsDir DEF BeginRun, MayStart
      <4>3. r.timestamp_dir < SecondOf(clock)
        <5>1. PICK d \in Int : d = SecondOf(clock)
            BY <4>2
        <5>2. r.timestamp_dir \in Int /\ stamp[u] \in Int
          <6>1. r.timestamp_dir \in Nat
              BY <2>1, Zenon
          <6>2. stamp \in [Runners -> Int]
              BY <2>0
          <6> QED
              BY <6>1, <6>2
        <5>3. r.timestamp_dir < d
            BY <4>1, <4>2, <5>1, <5>2
        <5> QED
            BY <5>1, <5>3, Zenon
      <4>4. SecondOf(r.created_at) < SecondOf(clock)
          BY <2>0, <4>3, Zenon
      <4> QED
          BY <2>1, <3>1, <4>4, SecondsGrow
    <3> QED
        BY <2>0, <3>2, <3>3, <3>4, Zenon DEF DraftLocations, PostLocations
  <2>5. CASE FindUnchanged(v)
    <3>1. /\ pc' = [pc EXCEPT ![v] = "skip"] /\ entry' = entry /\ pc[v] = "check"
          /\ Created(recorded)' = Created(recorded)
          /\ Created(rows)' = Created(rows)
          /\ \E r \in LastCreated : r.content_hash = entry[v].content_hash
        BY <2>5 DEF FindUnchanged, Goto, database, Created
    <3> QED
        BY <2>0, <2>3, <3>1 DEF DraftLocations, PostLocations
  <2>6. CASE FindChanged(v)
    <3>1. /\ pc' = [pc EXCEPT ![v] = "mkdir"] /\ entry' = entry /\ pc[v] = "check"
          /\ Created(recorded)' = Created(recorded)
          /\ Created(rows)' = Created(rows)
        BY <2>6 DEF FindChanged, Goto, database, Created
    <3>2. \A r \in LastCreated : r.content_hash # entry[v].content_hash
        BY <2>6, OneNewest DEF FindChanged
    <3> QED
        BY <2>0, <2>3, <3>1, <3>2 DEF DraftLocations, PostLocations
  <2>7. CASE InsertCreated(v)
    <3>1. PICK r \in Entries :
            /\ Insert(r) /\ r.status = "created"
            /\ entry' = [entry EXCEPT ![v] = r]
            /\ r.timestamp_dir = entry[v].timestamp_dir
            /\ r.created_at = entry[v].created_at
        BY <2>7, InsertedBackup
    <3>2. pc' = [pc EXCEPT ![v] = "manifest"] /\ pc[v] = "insert"
        BY <2>7 DEF InsertCreated, Goto
    <3>3. Created(recorded)' = Created(recorded) \cup {r} /\ r \in rows'
        BY <3>1 DEF Insert, Created
    <3>4. r.timestamp_dir = SecondOf(r.created_at)
        BY <2>0, <3>1, <3>2, Zenon DEF DraftLocations
    <3>5. \A q \in Created(recorded) : q.created_at < r.created_at
        BY <2>0, <3>1, <3>2 DEF DraftLocations
    <3>6. Named(Created(recorded)')
        BY <2>0, <3>3, <3>4, Zenon
    <3>7. pc'[v] = "manifest" /\ entry'[v] = r
        BY <2>0, <3>1, <3>2
    <3> HIDE DEF Named
    <3> QED
        BY <3>3, <3>5, <3>6, <3>7 DEF DraftLocations, PostLocations
  <2>8. CASE v \in Schedulers /\ (DeleteRow(v) \/ DeleteReturning(v))
    <3>1. Created(recorded)' = Created(recorded) /\ pc'[v] \in {"delete", "rmdir"}
        BY <2>0, <2>8 DEF DeleteRow, DeleteReturning, Goto, Created
    <3> QED
        BY <2>0, <3>1 DEF DraftLocations, PostLocations
  <2>9. CASE SoleFrame(v)
    <3>1. pc'[v] \in PostLocations => entry'[v] \in rows'
      <4>1. ASSUME pc'[v] \in PostLocations PROVE entry[v] \in Created(rows)
          BY <2>0, <2>9, <4>1 DEF SoleFrame, BaseInv, WorkInv, Created
      <4> QED
          BY <2>9, <4>1 DEF SoleFrame, Created
    <3>2. LastCreated' = LastCreated /\ Created(recorded)' = Created(recorded)
        BY <2>3, <2>9 DEF SoleFrame
    <3>3. /\ pc'[v] \in DraftLocations => pc[v] \in DraftLocations /\ entry'[v] = entry[v]
          /\ pc'[v] = "skip" => pc[v] = "skip"
          /\ pc'[v] \in DraftLocations \ {"check", "skip"} =>
                pc[v] \in DraftLocations \ {"check", "skip"}
          /\ pc'[v] \in PostLocations => pc[v] \in PostLocations /\ entry'[v] = entry[v]
        BY <2>9 DEF SoleFrame
    <3>4. "skip" \in DraftLocations
        BY DEF DraftLocations
    <3> QED
        BY <2>0, <3>1, <3>2, <3>3, <3>4
  <2> HIDE DEF Named, Part
  <2> QED
      BY <2>4, <2>5, <2>6, <2>7, <2>8, <2>9, SoleSteps
<1> QED
    BY <1>1, <1>2 DEF SoleInv

\* Before the first run there is no backup.
LEMMA SoleInit == Init => SoleInv
<1> SUFFICES ASSUME Init PROVE SoleInv
    OBVIOUS
<1>1. \A w \in Runners : pc[w] = "idle"
    BY DEF Init, Actors
<1>2. Created(recorded) = {}
    BY DEF Init, Created
<1> QED
    BY <1>1, <1>2 DEF SoleInv, DraftLocations, PostLocations

\* A sole runner stamps its backups in increasing order, and the hash it compared
\* with is still that of the newest backup when it inserts its own.
THEOREM AlwaysSole ==
    ASSUME ~SharedSeconds, SoleRunner
    PROVE  Spec => []SoleInv
<1>1. StoreInv /\ SoleInv /\ [Next]_vars => SoleInv'
    BY SoleNext DEF StoreInv
<1> QED
    BY <1>1, SoleInit, AlwaysStore, PTL DEF Spec

\* A row that appears is that of a run, and says what the run has found.
LEMMA NewRows ==
    ASSUME BaseInv, [Next]_vars, NEW r \in rows' \ rows
    PROVE  \E w \in Runners :
            /\ r.content_hash = entry[w].content_hash
            /\ \/ pc[w] = "insert" /\ r.status = "created"
               \/ pc[w] = "skip" /\ r.status = "skipped"
<1>1. ASSUME NEW w \in Runners, InsertSkipped(w)
      PROVE  /\ r.content_hash = entry[w].content_hash
             /\ pc[w] = "skip" /\ r.status = "skipped"
  <2>1. entry[w] \in Entries /\ nextId \in Nat
      BY BoundsAssumption DEF BaseInv, TypeOK, Actors
  <2>2. PICK q : q = BackupEntry(entry[w], "skipped", RootDir)
      OBVIOUS
  <2>3. q.status = "skipped" /\ q.content_hash = entry[w].content_hash
    <3>1. "skipped" \in Statuses /\ RootDir \in Dirs \cup {RootDir}
        BY DEF Statuses
    <3> QED
        BY <2>1, <2>2, <3>1, NewRow
  <2>4. rows' = rows \cup {q} /\ pc[w] = "skip"
      BY <1>1, <2>2 DEF InsertSkipped, Insert
  <2> QED
      BY <2>3, <2>4
<1>2. ASSUME NEW w \in Runners, InsertCreated(w)
      PROVE  /\ r.content_hash = entry[w].content_hash
             /\ pc[w] = "insert" /\ r.status = "created"
  <2>1. PICK q \in Entries : /\ Insert(q) /\ q.status = "created"
                             /\ q.content_hash = entry[w].content_hash
      BY <1>2, InsertedBackup
  <2> QED
      BY <1>2, <2>1 DEF Insert, InsertCreated
<1>3. ASSUME NEW w \in Schedulers, DeleteRow(w) \/ DeleteReturning(w) PROVE FALSE
    BY <1>3 DEF DeleteRow, DeleteReturning
<1>4. ~(Tick \/ UNCHANGED ledger)
    BY DEF Tick, database, ledger
<1> QED
    BY <1>1, <1>2, <1>3, <1>4, LedgerSteps

\* If one task makes the backups, and not two of them within one second, no
\* backup repeats the content of the newest one at the time of its INSERT,
\* however long before run_once has asked for last_created_hash.
THEOREM ChangeAwareness ==
    ASSUME ~SharedSeconds, SoleRunner
    PROVE  Spec => ChangeAware
<1> DEFINE Differs ==
        \A r \in Created(rows' \ rows), q \in Created(rows) :
            (\A x \in Created(rows) : x.created_at <= q.created_at)
                => r.content_hash # q.content_hash
<1>1. StoreInv /\ SoleInv /\ [Next]_vars => [Differs]_vars
  <2> SUFFICES ASSUME BaseInv, SoleInv, [Next]_vars,
                      NEW r \in Created(rows' \ rows), NEW q \in Created(rows),
                      \A x \in Created(rows) : x.created_at <= q.created_at
               PROVE  r.content_hash # q.content_hash
      BY DEF StoreInv
  <2>1. r \in rows' \ rows /\ r.status = "created" /\ q \in LastCreated
      BY DEF Created, LastCreated
  <2>2. PICK w \in Runners : r.content_hash = entry[w].content_hash /\ pc[w] = "insert"
      BY <2>1, NewRows
  <2> QED
      BY <2>1, <2>2 DEF SoleInv, DraftLocations
<1> QED
    BY <1>1, AlwaysSole, AlwaysStore, PTL DEF Spec, ChangeAware

\* ... and it skips a run only if a backup of the same content can be restored.
THEOREM SkipsJustified ==
    ASSUME ~SharedSeconds, SoleRunner
    PROVE  Spec => SkipJustified
<1> DEFINE Justified ==
        \A s \in (rows' \ rows) \ Created(rows') :
            \E r \in Created(rows) :
                /\ r.content_hash = s.content_hash
                /\ payload[r.timestamp_dir] = s.content_hash
<1>1. StoreInv /\ SoleInv /\ [Next]_vars => [Justified]_vars
  <2> SUFFICES ASSUME BaseInv, ContentInv, SoleInv, [Next]_vars,
                      NEW s \in (rows' \ rows) \ Created(rows')
               PROVE  \E r \in Created(rows) :
                        /\ r.content_hash = s.content_hash
                        /\ payload[r.timestamp_dir] = s.content_hash
      BY DEF StoreInv
  <2>1. s \in rows' \ rows /\ s.status # "created"
      BY DEF Created
  <2>2. PICK w \in Runners : s.content_hash = entry[w].content_hash /\ pc[w] = "skip"
      BY <2>1, NewRows
  <2>3. PICK r \in LastCreated : r.content_hash = s.content_hash
      BY <2>2 DEF SoleInv
  <2>4. r \in Created(rows) /\ r \in rows /\ r \in Created(recorded)
      BY DEF LastCreated, Created, BaseInv, LedgerInv
  <2>5. payload[r.timestamp_dir] = r.content_hash
      BY <2>4 DEF ContentInv, BackupsDurable
  <2> QED
      BY <2>3, <2>4, <2>5
<1> QED
    BY <1>1, AlwaysSole, AlwaysStore, PTL DEF Spec, SkipJustified

-----------------------------------------------------------------------------
\* Without requests and faults write_current_pointer always succeeds: from one
\* run to the next the pointer names the newest backup.
CurrentInv ==
    faults = 0 =>
        \A w \in Runners :
            /\ pc[w] \notin PostLocations =>
                \A r \in Created(recorded) :
                    (\A q \in Created(recorded) : q.created_at <= r.created_at)
                        => dst = r.id
            /\ pc[w] = "ptrFill" => tmp = Empty /\ fd[w] = "tmp"
            /\ pc[w] = "ptrRename" => tmp = entry[w].id

\* Every step preserves CurrentInv.
LEMMA CurrentNext ==
    ASSUME StoreInv, SoleInv, CurrentInv, SoleRunner, Handlers = {}, [Next]_vars
    PROVE  CurrentInv'
<1> DEFINE Current(D, R) ==
        \A r \in R : (\A q \in R : q.created_at <= r.created_at) => D = r.id
<1> SUFFICES ASSUME faults' = 0, NEW v \in Runners
             PROVE  /\ pc'[v] \notin PostLocations => Current(dst', Created(recorded)')
                    /\ pc'[v] = "ptrFill" => tmp' = Empty /\ fd'[v] = "tmp"
                    /\ pc'[v] = "ptrRename" => tmp' = entry'[v].id
    BY DEF CurrentInv
<1>0. /\ pc \in [Actors -> Locations] /\ entry \in [Actors -> Entries]
      /\ fd \in [Actors -> Descriptors] /\ v \in Actors /\ faults = 0
      /\ BaseInv /\ OwnerInv /\ ContentInv
    BY FaultSteps, ActorsAssumption DEF StoreInv, BaseInv, TypeOK, PointerTypeOK, Actors
<1>1. /\ pc[v] \notin PostLocations => Current(dst, Created(recorded))
      /\ pc[v] = "ptrFill" => tmp = Empty /\ fd[v] = "tmp"
      /\ pc[v] = "ptrRename" => tmp = entry[v].id
    BY <1>0 DEF CurrentInv
<1>2. \A r \in Created(recorded) : r.created_at \in Nat /\ r.id \in Nat \ {0}
  <2>1. \A r \in Created(recorded) : r \in Entries /\ r.id \in 1 .. nextId - 1
      BY <1>0 DEF BaseInv, TypeOK, LedgerInv, Created
  <2>2. nextId \in Nat
      BY <1>0, BoundsAssumption DEF BaseInv, TypeOK
  <2> QED
      BY <2>1, <2>2 DEF Entries
<1>3. ASSUME pc[v] \in PostLocations
      PROVE  /\ entry[v] \in Created(recorded)
             /\ Current(entry[v].id, Created(recorded))
             /\ payload[entry[v].timestamp_dir] # NoDir
  <2>1. /\ entry[v] \in Created(recorded) /\ entry[v] \in rows
        /\ \A q \in Created(recorded) : q = entry[v] \/ q.created_at < entry[v].created_at
      BY <1>0, <1>3 DEF BaseInv, WorkInv, SoleInv
  <2>2. Current(entry[v].id, Created(recorded))
    <3> SUFFICES ASSUME NEW r \in Created(recorded),
                        \A q \in Created(recorded) : q.created_at <= r.created_at
                 PROVE  entry[v].id = r.id
        OBVIOUS
    <3>1. entry[v].created_at <= r.created_at
        BY <2>1
    <3>2. ~(r.created_at < entry[v].created_at)
        BY <1>2, <2>1, <3>1
    <3> QED
        BY <2>1, <3>2
  <2>3. payload[entry[v].timestamp_dir] = entry[v].content_hash
      BY <1>0, <2>1 DEF ContentInv, BackupsDurable
  <2>4. entry[v].content_hash \in Contents
      BY <1>0, <2>1 DEF BaseInv, LedgerInv
  <2> HIDE DEF Current
  <2> QED
      BY <2>1, <2>2, <2>3, <2>4, ContentsAssumption
<1> HIDE DEF Current
<1>4. CASE RunOnce(v)
  <2>1. CASE InsertCreated(v) \/ WriteManifest(v)
      BY <1>0, <2>1 DEF InsertCreated, WriteManifest, Goto, PostLocations
  <2>2. ASSUME NEW c \in Contents, BeginRun(v, c)
        PROVE  /\ UNCHANGED <<dst, recorded>> /\ pc[v] \notin PostLocations
               /\ pc'[v] \notin PostLocations
      BY <1>0, <2>2 DEF BeginRun, Goto, database, pointerVars, PostLocations
  <2>3. CASE \/ FindUnchanged(v) \/ FindChanged(v) \/ MakeDir(v)
             \/ CreatePayload(v) \/ FillPayload(v) \/ StatsOk(v)
    <3>1. /\ UNCHANGED <<dst, recorded>> /\ pc[v] \notin PostLocations
          /\ pc'[v] \notin PostLocations
        BY <1>0, <2>3
        DEF FindUnchanged, FindChanged, MakeDir, CreatePayload, FillPayload,
            StatsOk, Goto, database, pointerVars, PostLocations
    <3> QED
        BY <1>1, <3>1 DEF Created, PostLocations
  <2>4. CASE InsertSkipped(v)
    <3>1. /\ Created(recorded)' = Created(recorded) /\ dst' = dst
          /\ pc[v] \notin PostLocations /\ pc'[v] \in {"prune", "idle"}
        BY <1>0, <2>4, SkippedNotCreated
        DEF InsertSkipped, EndRun, Goto, pointerVars, PostLocations
    <3> QED
        BY <1>1, <3>1 DEF PostLocations
  <2>5. CASE StatsError(v) \/ DirectoryGone(v)
    <3>1. /\ UNCHANGED <<dst, recorded>> /\ pc'[v] \in {"prune", "idle"}
          /\ pc[v] \notin PostLocations
        BY <1>0, <1>3, <2>5
        DEF StatsError, DirectoryGone, EndRun, Goto, database, pointerVars,
            PostLocations
    <3> QED
        BY <1>1, <3>1 DEF Created, PostLocations
  <2> QED
      BY <1>1, <1>4, <2>1, <2>2, <2>3, <2>4, <2>5 DEF RunOnce, Created, PostLocations
<1>5. CASE WritePointer(v)
  <2>0. pc[v] \in PostLocations /\ Created(recorded)' = Created(recorded)
      BY <1>5
      DEF WritePointer, OpenPointer, FillPointer, RenamePointer,
          RenamePointerError, PostLocations, database, Created
  <2>1. CASE OpenPointer(v)
      BY <1>0, <2>1, ActorsAssumption DEF OpenPointer, OpenTmp, Goto, PostLocations
  <2>2. CASE FillPointer(v)
    <3>1. tmp = Empty /\ fd[v] = "tmp"
        BY <1>1, <2>2 DEF FillPointer
    <3>2. tmp' = entry[v].id
        BY <2>2, <3>1 DEF FillPointer, FillTmp, Overwrite
    <3> QED
        BY <1>0, <2>2, <3>2 DEF FillPointer, Goto, PostLocations
  <2>3. CASE RenamePointer(v)
    <3>1. dst' = entry[v].id /\ pc'[v] \in {"prune", "idle"}
        BY <1>0, <1>1, <2>3 DEF RenamePointer, RenameTmp, EndRun, Goto
    <3> QED
        BY <1>3, <2>0, <3>1 DEF PostLocations
  <2>4. ~RenamePointerError(v)
    <3>1. pc[v] = "ptrRename" => tmp # Absent
        BY <1>1, <1>2, <1>3, <2>0 DEF Absent
    <3> QED
        BY <3>1 DEF RenamePointerError, RenameFails
  <2> QED
      BY <1>5, <2>1, <2>2, <2>3, <2>4 DEF WritePointer
<1>6. CASE v \in Schedulers /\ Prune(v)
  <2>1. /\ UNCHANGED <<dst, recorded>> /\ pc[v] \notin PostLocations
        /\ pc'[v] \in {"idle", "delete", "rmdir", "unlink"}
      BY <1>0, <1>6
      DEF Prune, PruneNothing, SelectDoomed, DeleteRow, DeletesDone,
          DeleteReturning, CheckDir, UnlinkDir, UnlinkError, PruneDone, Goto,
          database, pointerVars, PostLocations
  <2> QED
      BY <1>1, <2>1 DEF Created, PostLocations
<1>7. CASE Tick \/ UNCHANGED vars
  <2>1. UNCHANGED <<pc, entry, tmp, dst, fd, recorded>>
      BY <1>7 DEF Tick, vars, pointerVars, database
  <2> QED
      BY <1>1, <2>1 DEF Created
<1>8. ASSUME NEW a, NEW l, Abandon(a, l) PROVE FALSE
  <2>1. faults' = faults + 1
      BY <1>8, Zenon DEF Abandon
  <2>2. faults = 0 /\ faults' = 0
      BY <1>0
  <2> QED
      BY <2>1, <2>2
<1>9. (\A a \in Actors : ~Crash(a)) /\ (\A w \in Schedulers : ~RunFails(w))
    BY <1>8, Zenon DEF Crash, RunFails
<1>10. /\ \A w \in Runners : w = v
       /\ \A a \in Actors : a = v
       /\ \A w \in Schedulers : w = v
    BY DEF SoleRunner, Runners, Actors
<1> QED
    BY <1>4, <1>5, <1>6, <1>7, <1>9, <1>10 DEF Next

\* If the daemon's scheduler is the only task, current-pointer.json names the
\* newest backup whenever it rests, as long as nothing has failed: run_once does
\* not return between the INSERT and the rename.
THEOREM PointerIsCurrent ==
    ASSUME ~SharedSeconds, SoleRunner, Handlers = {}
    PROVE  Spec => []PointerCurrent
<1>1. Init => CurrentInv
  <2> SUFFICES ASSUME Init PROVE CurrentInv
      OBVIOUS
  <2>1. \A w \in Runners : pc[w] = "idle"
      BY DEF Init, Actors
  <2>2. Created(recorded) = {}
      BY DEF Init, Created
  <2> QED
      BY <2>1, <2>2 DEF CurrentInv
<1>2. StoreInv /\ SoleInv /\ CurrentInv /\ [Next]_vars => CurrentInv'
    BY CurrentNext
<1>3. CurrentInv => PointerCurrent
  <2> SUFFICES ASSUME CurrentInv, faults = 0, AllIdle PROVE PointerCurrent
      BY DEF PointerCurrent
  <2>1. PICK w \in Runners : pc[w] = "idle"
      BY DEF AllIdle, Actors, SoleRunner
  <2> QED
      BY <2>1 DEF CurrentInv, PointerCurrent, PostLocations
<1> QED
    BY <1>1, <1>2, <1>3, AlwaysSole, AlwaysStore, PTL DEF Spec
=============================================================================
