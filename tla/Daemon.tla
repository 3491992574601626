--------------------------------- MODULE Daemon ---------------------------------
(***************************************************************************)
(* One daemon over many hours: scheduler_loop (crates/daemon/src/main.rs)  *)
(* and a rollback request (server.rs) at work on one repository and one    *)
(* AnkiWeb account, which other Anki clients change as well.  The question *)
(* is what the loop achieves in the long run, when downloads, uploads and  *)
(* the two writers of the pointer come in any order.                       *)
(*                                                                         *)
(* Steps of run_once and of the handler that Repository takes apart are    *)
(* one step here; a backup is its collection and its age in hours.  One    *)
(* cycle begins in every hour and ends within it (Scheduler, SyncClient),  *)
(* so the hour passes when the scheduler wakes.  An upload that was given  *)
(* up may still be applied by AnkiWeb, at any later time.                  *)
(***************************************************************************)
EXTENDS Integers, Sequences, FiniteSets

CONSTANTS
    Collections,   \* collections that AnkiWeb may hold
    Malformed,     \* those that extract_stats cannot read
    Retention,     \* retention period in hours, 0 if pruning is off
    MaxRollbacks,  \* bound on the rollbacks
    MaxFaults      \* bound on I/O errors and failing uploads

Nothing == "Nothing"

ASSUME DaemonAssumption ==
    /\ Nothing \notin Collections /\ Malformed \subseteq Collections
    /\ Retention \in Nat /\ MaxRollbacks \in Nat /\ MaxFaults \in Nat

VARIABLES
    pc,        \* where scheduler_loop is
    payload,   \* the collection it has downloaded
    rows,      \* created backups, oldest first
    pointer,   \* collection of the backup that the pointer names
    web,       \* collection on AnkiWeb
    req,       \* where the rollback request is
    target,    \* the collection it goes back to
    place,     \* where the row of that backup is in rows, 0 if it is gone
    rollbacks, \* number of rollbacks so far
    late,      \* number of uploads of each collection that were given up and
               \* that AnkiWeb may still apply
    faults,    \* number of faults so far
    adrift     \* history: a rollback or a run failed after its first effect, or
               \* an upload that was given up has undone what came after it

scheduler == <<pc, payload>>
request == <<req, target, place, rollbacks>>
ankiweb == <<web, late>>
vars == <<scheduler, rows, pointer, ankiweb, request, faults, adrift>>

-----------------------------------------------------------------------------
\* Ages are counted until they exceed the retention period.
Backups == [content : Collections, age : 0 .. Retention + 1]
Expired(b) == Retention > 0 /\ b.age > Retention
Stored == {rows[i].content : i \in DOMAIN rows}

TypeOK ==
    /\ pc \in {"sleep", "sync", "compare", "create", "point", "prune"}
    /\ payload \in Collections \cup {Nothing}
    /\ rows \in Seq(Backups)
    /\ pointer \in Collections \cup {Nothing}
    /\ web \in Collections
    /\ req \in {"idle", "swap", "read", "push"}
    /\ target \in Collections \cup {Nothing}
    /\ place \in Nat
    /\ late \in [Collections -> Nat]
    /\ rollbacks \in 0 .. MaxRollbacks
    /\ faults \in 0 .. MaxFaults
    /\ adrift \in BOOLEAN

Init ==
    /\ pc = "sleep" /\ payload = Nothing
    /\ rows = <<>> /\ pointer = Nothing
    /\ web \in Collections
    /\ req = "idle" /\ target = Nothing /\ place = 0 /\ rollbacks = 0
    /\ late = [c \in Collections |-> 0]
    /\ faults = 0
    /\ adrift = FALSE

Fault == faults < MaxFaults /\ faults' = faults + 1

-----------------------------------------------------------------------------
\* The top of the hour.
Older(b) == [b EXCEPT !.age = IF @ <= Retention THEN @ + 1 ELSE @]

Wake ==
    /\ pc = "sleep" /\ pc' = "sync"
    /\ rows' = [i \in DOMAIN rows |-> Older(rows[i])]
    /\ UNCHANGED <<payload, pointer, ankiweb, request, faults, adrift>>

\* sync_collection: the payload is what AnkiWeb has now, until it is compared.
SyncOk ==
    /\ pc = "sync" /\ pc' = "compare"
    /\ payload' = web
    /\ UNCHANGED <<rows, pointer, ankiweb, request, faults, adrift>>

\* sync_collection takes any 2xx body for the collection.
SyncPage ==
    /\ pc = "sync" /\ pc' = "compare"
    /\ payload' \in Malformed
    /\ UNCHANGED <<rows, pointer, ankiweb, request, faults, adrift>>

\* `ankiweb sync failed': neither a run nor pruning in this hour.
SyncFails ==
    /\ pc = "sync" /\ pc' = "sleep"
    /\ UNCHANGED <<payload, rows, pointer, ankiweb, request, faults, adrift>>

UnchangedSincePointer == pointer = payload

\* last_created_hash, against the newest backup only.
Unchanged == rows # <<>> /\ rows[Len(rows)].content = payload

CompareReturns ==
    /\ pc = "compare"
    /\ pc' = IF Unchanged THEN "stopped" ELSE "create"
    /\ UNCHANGED <<payload, rows, pointer, ankiweb, request, faults, adrift>>

Compare ==
    /\ pc = "compare"
    /\ pc' = IF Unchanged THEN "prune" ELSE "create"
    /\ UNCHANGED <<payload, rows, pointer, ankiweb, request, faults, adrift>>

\* The error of extract_stats, in every hour that brings such a collection.
StatsError ==
    /\ pc = "create" /\ pc' = "prune"
    /\ payload \in Malformed
    /\ UNCHANGED <<payload, rows, pointer, ankiweb, request, faults, adrift>>

Create ==
    /\ pc = "create" /\ pc' = "point"
    /\ payload \notin Malformed
    /\ rows' = Append(rows, [content |-> payload, age |-> 0])
    /\ UNCHANGED <<payload, pointer, ankiweb, request, faults, adrift>>

\* Mutant: a run leaves the pointer where the last rollback has put it.
PointFirstOnly ==
    /\ pc = "point" /\ pc' = "prune"
    /\ pointer' = IF pointer = Nothing THEN payload ELSE pointer
    /\ adrift' = FALSE
    /\ UNCHANGED <<payload, rows, ankiweb, request, faults>>

Point ==
    /\ pc = "point" /\ pc' = "prune"
    /\ pointer' = payload
    /\ adrift' = FALSE
    /\ UNCHANGED <<payload, rows, ankiweb, request, faults>>

\* Any other error of run_once, before or after its row is inserted.
RunFails ==
    /\ Fault
    /\ pc \in {"compare", "create", "point"} /\ pc' = "prune"
    /\ adrift' = (adrift \/ pc = "point")
    /\ UNCHANGED <<payload, rows, pointer, ankiweb, request>>

PruneOff ==
    /\ pc = "prune" /\ pc' = "sleep"
    /\ UNCHANGED <<payload, rows, pointer, ankiweb, request, faults, adrift>>

\* The rows are oldest first, so those that have expired are in front.
ExpiredCount == Cardinality({i \in DOMAIN rows : Expired(rows[i])})

Prune ==
    /\ pc = "prune" /\ pc' = "sleep"
    /\ rows' = SubSeq(rows, ExpiredCount + 1, Len(rows))
    /\ place' = IF place > ExpiredCount THEN place - ExpiredCount ELSE 0
    /\ UNCHANGED <<payload, pointer, ankiweb, req, target, rollbacks, faults, adrift>>

PruneFails ==
    /\ Fault
    /\ pc = "prune" /\ pc' = "sleep"
    /\ UNCHANGED <<payload, rows, pointer, ankiweb, request, adrift>>

-----------------------------------------------------------------------------
\* rollback_backup: the row is looked up, then the pointer swapped.
Ask ==
    /\ req = "idle" /\ req' = "swap"
    /\ rollbacks < MaxRollbacks /\ rollbacks' = rollbacks + 1
    /\ \E i \in DOMAIN rows : place' = i /\ target' = rows[i].content
    /\ UNCHANGED <<scheduler, rows, pointer, ankiweb, faults, adrift>>

Swap ==
    /\ req = "swap" /\ req' = "read"
    /\ pointer' = target
    /\ adrift' = FALSE
    /\ UNCHANGED <<scheduler, rows, ankiweb, target, place, rollbacks, faults>>

\* The handler has returned, or its future is dropped.
Return == req' = "idle" /\ target' = Nothing /\ place' = 0

\* The payload is read for the upload, if pruning has not removed it.
Read ==
    /\ req = "read" /\ place # 0
    /\ req' = "push"
    /\ UNCHANGED <<scheduler, rows, pointer, ankiweb, target, place, rollbacks,
                   faults, adrift>>

ReadError ==
    /\ req = "read" /\ place = 0
    /\ Return
    /\ adrift' = TRUE
    /\ UNCHANGED <<scheduler, rows, pointer, ankiweb, rollbacks, faults>>

\* The upload is applied and answered.
Push ==
    /\ req = "push"
    /\ Return
    /\ web' = target
    /\ UNCHANGED <<scheduler, rows, pointer, late, rollbacks, faults, adrift>>

\* The upload of a handler that ends while it waits for the answer.
Abandoned == IF req = "push" THEN [late EXCEPT ![target] = @ + 1] ELSE late

\* An error of rollback_to or of the upload, or a connection that is closed.
RollbackFails ==
    /\ Fault
    /\ req # "idle"
    /\ Return
    /\ late' = Abandoned
    /\ adrift' = (adrift \/ req # "swap")
    /\ UNCHANGED <<scheduler, rows, pointer, web, rollbacks>>

\* AnkiWeb applies an upload whose client has gone.  A rollback that has swapped
\* the pointer will upload after it; otherwise the pointer is left behind,
\* unless it is where this upload belongs.
ApplyLate ==
    /\ \E c \in Collections :
          /\ late[c] > 0
          /\ late' = [late EXCEPT ![c] = @ - 1]
          /\ web' = c
          /\ adrift' = IF req \in {"read", "push"} THEN adrift ELSE pointer # c
    /\ UNCHANGED <<scheduler, rows, pointer, request, faults>>

\* Another Anki client syncs.  Its collection is one that nobody has seen: notes
\* and reviews carry their modification times.
Edit ==
    /\ web' \in {c \in Collections \ ({web, payload, pointer, target} \cup Stored) :
                    late[c] = 0}
    /\ UNCHANGED <<scheduler, rows, pointer, late, request, faults, adrift>>

\* The daemon is restarted: the scheduler sleeps until the next hour.
Restart ==
    /\ Fault
    /\ pc' = "sleep"
    /\ Return
    /\ late' = Abandoned
    /\ adrift' = (adrift \/ pc = "point" \/ req \in {"read", "push"})
    /\ UNCHANGED <<payload, rows, pointer, web, rollbacks>>

Scheduled == Wake \/ Compare \/ StatsError \/ Create \/ Point \/ Prune
Handled == Swap \/ Read \/ ReadError \/ Push

Next ==
    \/ Scheduled \/ SyncOk \/ SyncPage \/ SyncFails \/ RunFails \/ PruneFails
    \/ Ask \/ Handled \/ RollbackFails
    \/ ApplyLate \/ Edit \/ Restart

Spec == Init /\ [][Next]_vars

\* The loop never stops by itself and a handler goes on (timeouts end what
\* AnkiWeb does not answer); whether syncs succeed is up to AnkiWeb.
FairSpec == /\ Spec
            /\ WF_vars(Scheduled \/ SyncOk \/ SyncPage \/ SyncFails)
            /\ WF_vars(Handled)

\* AnkiWeb is not down for ever: of infinitely many syncs some succeed.
OnlineSpec == FairSpec /\ SF_vars(SyncOk)

-----------------------------------------------------------------------------
\* No rollback is between its swap and its upload and no run between its row and
\* its pointer, the last of them did not fail half way, and no upload that was
\* given up has come after them.
Quiet == req \notin {"read", "push"} /\ pc # "point" /\ ~adrift

\* Then, if the newest backup has the collection that is on AnkiWeb, the pointer
\* names it.  (No run would correct the pointer, for each skips this collection
\* as unchanged.  After a failure or a late upload the pointer really may be
\* elsewhere: see PointerConverges for how long.)
PointerAgrees ==
    Quiet /\ rows # <<>> /\ rows[Len(rows)].content = web => pointer = web

\* If AnkiWeb's collection stays the same from some time on, and extract_stats
\* can read it, it is backed up again and again: failing syncs and runs, pages
\* in place of the collection, restarts and rollbacks delay this but do not
\* prevent it.  (Not: it is backed up from then on.  A run that finds it
\* unchanged may be followed by the pruning of the only backup, and the next run
\* makes a new one.)
CurrentBackedUp ==
    \A c \in Collections \ Malformed : <>[](web = c) => []<>(c \in Stored)

\* If AnkiWeb's collection stays the same, the pointer ends up at a backup of it
\* and stays there, however downloads, uploads and the pointer writes of run_once
\* and of rollbacks are ordered, whatever fails half way and however late an
\* upload is applied.  Runs that skip the collection as unchanged leave a wrong
\* pointer alone, but only until the backup they compare with is pruned: the
\* next run makes a new one and writes the pointer.  So retention must be on.
PointerConverges ==
    Retention > 0 =>
        \A c \in Collections \ Malformed : <>[](web = c) => <>[](pointer = c)

\* Backups past the retention period do not stay, given that syncs succeed.
\* Without that it is what README.md says of the scheduler, `Each cycle: ...
\* Prunes old backups past retention period'.
ExpiredPruned == []<>(\A i \in DOMAIN rows : ~Expired(rows[i]))
=============================================================================
