---------------------------- MODULE RollbackPointer ----------------------------
(***************************************************************************)
(* The two callers of write_current_pointer and the audit record of a      *)
(* rollback (crates/storage/src/repository.rs):                            *)
(*                                                                         *)
(*    run_once       ends with write_current_pointer                       *)
(*    rollback_to    write_current_pointer, then insert_rollback_event     *)
(*                                                                         *)
(* rollback_backup of the HTTP server holds the mutex rollback_gate while  *)
(* it calls rollback_to, so one daemon performs one rollback at a time.    *)
(* Nothing excludes run_once, which the scheduler task of the same daemon  *)
(* calls without the gate, and a run-once process knows no gate at all.    *)
(***************************************************************************)
EXTENDS PointerFile

CONSTANTS
    Rollbacks,  \* the writers that are rollback requests of one daemon;
                \* the other members of Writers are calls of run_once
    Ids         \* backups a pointer can name

ASSUME WritersAssumption == Rollbacks \subseteq Writers
ASSUME IdsAssumption == Ids \subseteq Nat \ {0}

VARIABLES
    pc,         \* control state of each writer
    target,     \* the backup each writer points to
    events,     \* the backups named in table rollback_events
    installed,  \* history: every value current-pointer.json has had
    quiet,      \* history: the writers that have had the temporary file to
                \* themselves since they opened it
    mixed       \* history: run_once has met another writer at that file

history == <<installed, quiet, mixed>>
vars == <<pointerVars, pc, target, events, history>>

Locations == {"idle", "open", "fill", "rename", "record"}

TypeOK ==
    /\ PointerTypeOK
    /\ pc \in [Writers -> Locations]
    /\ target \in [Writers -> Ids \cup {Absent}]
    /\ events \subseteq Ids
    /\ installed \subseteq PointerContents
    /\ quiet \subseteq Writers
    /\ mixed \in BOOLEAN

Init ==
    /\ PointerInit
    /\ pc = [w \in Writers |-> "idle"]
    /\ target = [w \in Writers |-> Absent]
    /\ events = {}
    /\ installed = {Absent}
    /\ quiet = {}
    /\ mixed = FALSE

-----------------------------------------------------------------------------
\* Mutant: the handler forgets to take the lock.
GateNotTaken(w) == TRUE

\* rollback_gate.lock(): a rollback starts when no other one is in progress.
GateFree(w) == \A v \in Rollbacks \ {w} : pc[v] = "idle"

\* Entry of write_current_pointer: run_once with the backup it has just
\* created, or rollback_to with the backup of the request.
Begin(w, id) ==
    /\ pc[w] = "idle"
    /\ w \in Rollbacks => GateFree(w)
    /\ pc' = [pc EXCEPT ![w] = "open"]
    /\ target' = [target EXCEPT ![w] = id]
    /\ UNCHANGED <<pointerVars, events, history>>

\* Mutant: the pointer file is opened in place, without a temporary file.
OpenInPlace(w) ==
    /\ pc[w] = "open"
    /\ dst' = Empty
    /\ fd' = [fd EXCEPT ![w] = "dst"]
    /\ tmp' = tmp
    /\ pc' = [pc EXCEPT ![w] = "fill"]
    /\ installed' = installed \cup {dst'}
    /\ UNCHANGED <<target, events, quiet, mixed>>

\* Mutant: the pointer file is removed first, to make place for the new one.
OpenAfterRemove(w) ==
    /\ pc[w] = "open"
    /\ tmp' = Empty
    /\ dst' = Absent
    /\ fd' = [fd EXCEPT ![w] = "tmp"]
    /\ pc' = [pc EXCEPT ![w] = "fill"]
    /\ UNCHANGED <<target, events, history>>

\* Writers that have opened the temporary file and not renamed it yet.
Busy(v) == pc[v] \in {"fill", "rename"}

\* Two rollbacks of the daemon, which its gate should keep apart.
SameDaemon(v, w) == v \in Rollbacks /\ w \in Rollbacks

Open(w) ==
    /\ pc[w] = "open"
    /\ OpenTmp(w)
    /\ pc' = [pc EXCEPT ![w] = "fill"]
    /\ quiet' = IF \E v \in Writers : Busy(v) THEN {} ELSE {w}
    /\ mixed' = (mixed \/ \E v \in Writers : Busy(v) /\ ~SameDaemon(v, w))
    /\ UNCHANGED <<target, events, installed>>

Fill(w) ==
    /\ pc[w] = "fill"
    /\ FillTmp(w, target[w])
    /\ pc' = [pc EXCEPT ![w] = "rename"]
    /\ installed' = installed \cup {dst'}
    /\ UNCHANGED <<target, events, quiet, mixed>>

\* Mutant: the target is forgotten before the event is recorded.
RenameForgetting(w) ==
    /\ pc[w] = "rename"
    /\ RenameTmp
    /\ pc' = [pc EXCEPT ![w] = IF w \in Rollbacks THEN "record" ELSE "idle"]
    /\ target' = [target EXCEPT ![w] = Absent]
    /\ installed' = installed \cup {dst'}
    /\ quiet' = quiet \ {w}
    /\ UNCHANGED <<events, mixed>>

\* The caller goes on only if the rename succeeded: run_once returns,
\* rollback_to records its event.
Rename(w) ==
    /\ pc[w] = "rename"
    /\ RenameTmp
    /\ pc' = [pc EXCEPT ![w] = IF w \in Rollbacks THEN "record" ELSE "idle"]
    /\ installed' = installed \cup {dst'}
    /\ quiet' = quiet \ {w}
    /\ UNCHANGED <<target, events, mixed>>

\* The error is returned with `?': rollback_to records nothing.
RenameError(w) ==
    /\ pc[w] = "rename"
    /\ RenameFails
    /\ pc' = [pc EXCEPT ![w] = "idle"]
    /\ quiet' = quiet \ {w}
    /\ UNCHANGED <<target, events, installed, mixed>>

\* insert_rollback_event: one INSERT, which succeeds or fails; the rollback is
\* over either way, and the pointer stays where it is.
Record(w) ==
    /\ pc[w] = "record"
    /\ events' \in {events, events \cup {target[w]}}
    /\ pc' = [pc EXCEPT ![w] = "idle"]
    /\ UNCHANGED <<pointerVars, target, history>>

\* An I/O error in fs::write, or the death of the process, wherever it is.
\* The temporary file stays behind as it is.
Die(w) ==
    /\ pc[w] # "idle"
    /\ CloseDescriptor(w)
    /\ pc' = [pc EXCEPT ![w] = "idle"]
    /\ quiet' = quiet \ {w}
    /\ UNCHANGED <<target, events, installed, mixed>>

Next ==
    \E w \in Writers :
        \/ \E id \in Ids : Begin(w, id)
        \/ Open(w)
        \/ Fill(w)
        \/ Rename(w)
        \/ RenameError(w)
        \/ Record(w)
        \/ Die(w)

Spec == Init /\ [][Next]_vars

-----------------------------------------------------------------------------
(***************************************************************************)
(* Properties.                                                             *)
(***************************************************************************)

\* current-pointer.json is never seen empty or half written: at every moment,
\* and so after a crash at any moment, it is absent or names a backup.  This
\* is what the temporary file and the rename of write_current_pointer are for.
PointerWhole == dst \notin {Empty, Garbled}

\* The pointer is whole as long as run_once has not met another writer, however
\* many rollbacks are asked for together: the gate keeps them apart, and what a
\* crash has left in the temporary file is truncated.
WholeUnlessMixed == ~mixed => PointerWhole

\* Until then the pointer changes only in the rename of a writer, and to the
\* backup that it was asked to install (rollback_to answers with this backup).
SwapInstallsTarget ==
    [][~mixed /\ dst' # dst => \E w \in Writers :
            /\ pc[w] = "rename"
            /\ pc'[w] # "rename"
            /\ dst' = target[w]]_vars

\* The audit trail is true until then: a backup that rollback_events names has
\* been the target of the pointer (rollback_to records the event after the swap).
EventsWereInstalled == ~mixed => events \subseteq installed

\* However the writers overlap, current-pointer.json never disappears once it
\* has existed: rename replaces it in one step and nothing removes it.
PointerNeverLost == [][dst # Absent => dst' # Absent]_vars

\* Collisions heal.  A writer that nobody overlapped is about to install
\* exactly its own target, whatever earlier collisions and crashes have left
\* in the temporary file (fs::write truncates what it finds).
QuietWriteHeals == \A w \in quiet : pc[w] = "rename" => tmp = target[w]
=============================================================================
