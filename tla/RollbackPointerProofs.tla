------------------------- MODULE RollbackPointerProofs -------------------------
(***************************************************************************)
(* Proofs about RollbackPointer, for every set of writers and of backups.  *)
(***************************************************************************)
EXTENDS RollbackPointer, TLAPS

\* A writer that is at work has a backup to point to.
TargetsKnown == \A w \in Writers : pc[w] # "idle" => target[w] \in Ids

\* The first invariant, which needs nothing of the writers.
Sound == TypeOK /\ TargetsKnown

USE DEF Absent, Empty, Garbled

\* Before the first write the pointer files are sound.
LEMMA InitSound == Init => Sound
<1> SUFFICES ASSUME Init PROVE Sound
    OBVIOUS
<1>1. PointerTypeOK
    BY DEF Init, PointerInit, PointerTypeOK, PointerContents, Descriptors
<1>2. /\ pc \in [Writers -> Locations]
      /\ target \in [Writers -> Ids \cup {Absent}]
    BY DEF Init, Locations
<1>3. events \subseteq Ids /\ installed \subseteq PointerContents
    BY DEF Init, PointerContents
<1>4. quiet \subseteq Writers /\ mixed \in BOOLEAN
    BY Zenon DEF Init
<1>5. TargetsKnown
    BY DEF Init, TargetsKnown
<1> QED
    BY <1>1, <1>2, <1>3, <1>4, <1>5, Zenon DEF Sound, TypeOK

\* Every step of every writer keeps them sound.
LEMMA NextSound == Sound /\ [Next]_vars => Sound'
<1> SUFFICES ASSUME Sound, [Next]_vars PROVE Sound'
    OBVIOUS
<1> USE WritersAssumption, IdsAssumption
    DEF Sound, TypeOK, TargetsKnown, PointerTypeOK, PointerContents,
        Descriptors, Locations
<1>1. ASSUME NEW w \in Writers, NEW id \in Ids, Begin(w, id) PROVE Sound'
    BY <1>1 DEF Begin, pointerVars, history
<1>2. ASSUME NEW w \in Writers, Open(w) PROVE Sound'
    BY <1>2 DEF Open, OpenTmp
<1>3. ASSUME NEW w \in Writers, Fill(w) PROVE Sound'
    BY <1>3 DEF Fill, FillTmp, Overwrite
<1>4. ASSUME NEW w \in Writers, Rename(w) PROVE Sound'
    BY <1>4 DEF Rename, RenameTmp
<1>5. ASSUME NEW w \in Writers, RenameError(w) PROVE Sound'
    BY <1>5 DEF RenameError, RenameFails, pointerVars, history
<1>6. ASSUME NEW w \in Writers, Record(w) PROVE Sound'
    BY <1>6 DEF Record, pointerVars, history
<1>7. ASSUME NEW w \in Writers, Die(w) PROVE Sound'
    BY <1>7 DEF Die, CloseDescriptor
<1>8. CASE UNCHANGED vars
    BY <1>8 DEF vars, pointerVars, history
<1> QED
    BY <1>1, <1>2, <1>3, <1>4, <1>5, <1>6, <1>7, <1>8 DEF Next

\* The variables keep their types, and a writer that is at work has a target.
THEOREM AlwaysSound == Spec => []Sound
<1>1. Init => Sound
    BY InitSound
<1>2. Sound /\ [Next]_vars => Sound'
    BY NextSound
<1> QED
    BY <1>1, <1>2, PTL DEF Spec

-----------------------------------------------------------------------------
(***************************************************************************)
(* Any writers.                                                            *)
(***************************************************************************)

\* current-pointer.json never disappears: whatever the writers do, the file
\* that write_current_pointer renames over it exists.
THEOREM NeverLost == Spec => PointerNeverLost
<1>1. Sound /\ [Next]_vars => [dst # Absent => dst' # Absent]_vars
  <2> SUFFICES ASSUME Sound, Next, dst # Absent PROVE dst' # Absent
      BY DEF vars, pointerVars, history
  <2> USE IdsAssumption DEF Sound, TypeOK, TargetsKnown
  <2>1. ASSUME NEW w \in Writers, Fill(w) PROVE dst' # Absent
      BY <2>1 DEF Fill, FillTmp, Overwrite
  <2>2. ASSUME NEW w \in Writers, Rename(w) PROVE dst' # Absent
      BY <2>2 DEF Rename, RenameTmp
  <2> QED
      BY <2>1, <2>2 DEF Next, Begin, Open, OpenTmp, RenameError, RenameFails,
                        Record, Die, CloseDescriptor, pointerVars, history
<1> QED
    BY <1>1, AlwaysSound, PTL DEF Spec, PointerNeverLost

\* A writer in quiet has the temporary file to itself, from the open, which
\* leaves it empty, to the rename.  Only a writer between its open and its
\* write has a descriptor.
QuietInv ==
    /\ \A v \in Writers : fd[v] # "closed" => pc[v] = "fill"
    /\ \A w \in quiet :
        /\ Busy(w)
        /\ \A v \in Writers \ {w} : ~Busy(v)
        /\ pc[w] = "fill" => fd[w] = "tmp" /\ tmp = Empty
        /\ pc[w] = "rename" => tmp = target[w]

\* Every step preserves what holds of a writer that nobody overlaps.
LEMMA NextQuiet == Sound /\ QuietInv /\ [Next]_vars => QuietInv'
<1> SUFFICES ASSUME Sound, QuietInv, [Next]_vars PROVE QuietInv'
    OBVIOUS
<1> USE DEF QuietInv, Sound, TypeOK, PointerTypeOK, Busy
<1>1. ASSUME NEW w \in Writers, NEW id \in Ids, Begin(w, id) PROVE QuietInv'
    BY <1>1 DEF Begin, pointerVars, history
<1>2. ASSUME NEW w \in Writers, Open(w) PROVE QuietInv'
    BY <1>2 DEF Open, OpenTmp
<1>3. ASSUME NEW w \in Writers, Fill(w) PROVE QuietInv'
    BY <1>3 DEF Fill, FillTmp, Overwrite
<1>4. ASSUME NEW w \in Writers, Rename(w) PROVE QuietInv'
    BY <1>4 DEF Rename, RenameTmp
<1>5. ASSUME NEW w \in Writers, RenameError(w) PROVE QuietInv'
    BY <1>5 DEF RenameError, RenameFails, pointerVars, history
<1>6. ASSUME NEW w \in Writers, Record(w) PROVE QuietInv'
    BY <1>6 DEF Record, pointerVars, history
<1>7. ASSUME NEW w \in Writers, Die(w) PROVE QuietInv'
    BY <1>7 DEF Die, CloseDescriptor
<1>8. CASE UNCHANGED vars
    BY <1>8 DEF vars, pointerVars, history
<1> QED
    BY <1>1, <1>2, <1>3, <1>4, <1>5, <1>6, <1>7, <1>8 DEF Next

\* Collisions heal, whoever the writers are: one that is not overlapped
\* installs its own target, because fs::write truncates the leftovers.
THEOREM QuietHeals == Spec => []QuietWriteHeals
<1>1. Init => QuietInv
    BY DEF Init, PointerInit, QuietInv
<1>2. Sound /\ QuietInv /\ [Next]_vars => QuietInv'
    BY NextQuiet
<1>3. QuietInv => QuietWriteHeals
    BY DEF QuietInv, QuietWriteHeals
<1> QED
    BY <1>1, <1>2, <1>3, AlwaysSound, PTL DEF Spec

-----------------------------------------------------------------------------
(***************************************************************************)
(* As long as run_once has not met another writer at the temporary file.   *)
(***************************************************************************)

\* rollback_gate: of two rollbacks one is idle.
Gated == \A v, w \in Rollbacks : v # w => pc[v] = "idle" \/ pc[w] = "idle"

\* The temporary file has one user, who finds at each step what it left at the
\* step before; a rollback about to be recorded has been installed.
AloneInv ==
    /\ \A v, w \in Writers : v # w => ~(Busy(v) /\ Busy(w))
    /\ \A w \in Writers :
        /\ fd[w] = IF pc[w] = "fill" THEN "tmp" ELSE "closed"
        /\ pc[w] = "fill" => tmp = Empty
        /\ pc[w] = "rename" => tmp = target[w]
        /\ pc[w] = "record" => target[w] \in installed
    /\ PointerWhole
    /\ events \subseteq installed

MixedInv == Gated /\ (~mixed => AloneInv)

\* The gate lets one rollback in at a time.
LEMMA NextGated == Sound /\ Gated /\ [Next]_vars => Gated'
<1> SUFFICES ASSUME Sound, Gated, [Next]_vars PROVE Gated'
    OBVIOUS
<1> USE WritersAssumption DEF Gated, Sound, TypeOK
<1>1. ASSUME NEW w \in Writers, NEW id \in Ids, Begin(w, id) PROVE Gated'
    BY <1>1 DEF Begin, GateFree
<1>2. ASSUME NEW w \in Writers, pc[w] # "idle",
             \E l \in Locations : pc' = [pc EXCEPT ![w] = l]
      PROVE  Gated'
    BY <1>2
<1>3. CASE UNCHANGED vars
    BY <1>3 DEF vars
<1> QED
    BY <1>1, <1>2, <1>3
       DEF Next, Open, Fill, Rename, RenameError, Record, Die, Locations

\* A writer that opens the temporary file has it to itself, or mixes.
LEMMA OpensAlone ==
    ASSUME Gated, NEW w \in Writers, Open(w), ~mixed', NEW v \in Writers
    PROVE  ~Busy(v) /\ ~mixed
<1>1. ~mixed
    BY Zenon DEF Open
<1>2. Busy(v) => SameDaemon(v, w)
    BY Zenon DEF Open
<1>3. pc[w] = "open"
    BY DEF Open
<1> QED
    BY <1>1, <1>2, <1>3 DEF Busy, SameDaemon, Gated

\* Every other step leaves mixed as it is.
LEMMA OpenMixes ==
    ASSUME Next
    PROVE  mixed' = mixed \/ \E w \in Writers : Open(w)
BY Zenon DEF Next, Begin, Fill, Rename, RenameError, Record, Die, history

\* Every step preserves what holds of a writer that is alone.
LEMMA NextAlone ==
    ASSUME Sound, Gated, AloneInv, [Next]_vars, ~mixed'
    PROVE  AloneInv'
<1> USE WritersAssumption, IdsAssumption
    DEF AloneInv, Sound, TypeOK, PointerTypeOK, TargetsKnown, PointerWhole, Busy
<1>1. ASSUME NEW w \in Writers, NEW id \in Ids, Begin(w, id) PROVE AloneInv'
    BY <1>1 DEF Begin, pointerVars, history
<1>2. ASSUME NEW w \in Writers, Open(w) PROVE AloneInv'
  <2>1. \A v \in Writers : ~Busy(v)
      BY <1>2, OpensAlone
  <2> QED
      BY <1>2, <2>1 DEF Open, OpenTmp
<1>3. ASSUME NEW w \in Writers, Fill(w) PROVE AloneInv'
    BY <1>3 DEF Fill, FillTmp, Overwrite
<1>4. ASSUME NEW w \in Writers, Rename(w) PROVE AloneInv'
    BY <1>4 DEF Rename, RenameTmp
<1>5. ASSUME NEW w \in Writers, RenameError(w) PROVE AloneInv'
    BY <1>5 DEF RenameError, RenameFails, pointerVars, history
<1>6. ASSUME NEW w \in Writers, Record(w) PROVE AloneInv'
  <2>1. events' \subseteq installed'
      BY <1>6 DEF Record, history
  <2> QED
      BY <1>6, <2>1 DEF Record, pointerVars, history
<1>7. ASSUME NEW w \in Writers, Die(w) PROVE AloneInv'
    BY <1>7 DEF Die, CloseDescriptor
<1>8. CASE UNCHANGED vars
    BY <1>8 DEF vars, pointerVars, history
<1> QED
    BY <1>1, <1>2, <1>3, <1>4, <1>5, <1>6, <1>7, <1>8 DEF Next

LEMMA NextMixed == Sound /\ MixedInv /\ [Next]_vars => MixedInv'
<1> SUFFICES ASSUME Sound, MixedInv, [Next]_vars PROVE MixedInv'
    OBVIOUS
<1>1. Gated'
    BY NextGated DEF MixedInv
<1>2. ASSUME ~mixed' PROVE ~mixed
  <2>1. CASE UNCHANGED vars
      BY <1>2, <2>1, Zenon DEF vars, history
  <2>2. ASSUME NEW w \in Writers, Open(w) PROVE ~mixed
      BY <1>2, <2>2, OpensAlone DEF MixedInv
  <2> QED
      BY <1>2, <2>1, <2>2, OpenMixes, Zenon
<1>3. ASSUME ~mixed' PROVE AloneInv'
    BY <1>2, <1>3, NextAlone DEF MixedInv
<1> QED
    BY <1>1, <1>3 DEF MixedInv

THEOREM AlwaysMixedInv == Spec => []MixedInv
<1>1. Init => MixedInv
    BY WritersAssumption
       DEF Init, PointerInit, MixedInv, Gated, AloneInv, PointerWhole, Busy
<1>2. Sound /\ MixedInv /\ [Next]_vars => MixedInv'
    BY NextMixed
<1> QED
    BY <1>1, <1>2, AlwaysSound, PTL DEF Spec

\* The state of the pointer files and of their writers is always well typed.
THEOREM TypeCorrect == Spec => []TypeOK
<1>1. Sound => TypeOK
    BY DEF Sound
<1> QED
    BY <1>1, AlwaysSound, PTL

\* Under the rollback gate current-pointer.json is never seen empty or half
\* written, as long as run_once does not meet a rollback.
THEOREM GatedWhole == Spec => []WholeUnlessMixed
<1>1. MixedInv => WholeUnlessMixed
    BY DEF MixedInv, AloneInv, WholeUnlessMixed
<1> QED
    BY <1>1, AlwaysMixedInv, PTL

\* Under the same condition rollback_events names only backups that were
\* installed.
THEOREM GatedEvents == Spec => []EventsWereInstalled
<1>1. MixedInv => EventsWereInstalled
    BY DEF MixedInv, AloneInv, EventsWereInstalled
<1> QED
    BY <1>1, AlwaysMixedInv, PTL

\* ... and the pointer changes only in a writer's rename, to the backup that
\* this writer was asked for.
THEOREM GatedTargets == Spec => SwapInstallsTarget
<1> DEFINE Swap == ~mixed /\ dst' # dst => \E w \in Writers :
                        /\ pc[w] = "rename"
                        /\ pc'[w] # "rename"
                        /\ dst' = target[w]
<1>1. Sound /\ MixedInv /\ [Next]_vars => [Swap]_vars
  <2> SUFFICES ASSUME Sound, MixedInv, Next, ~mixed, dst' # dst PROVE Swap
      BY DEF vars, pointerVars, history
  <2>0. AloneInv
      BY DEF MixedInv
  <2> USE <2>0 DEF Sound, TypeOK, AloneInv
  <2>1. ASSUME NEW w \in Writers, Rename(w) PROVE Swap
      BY <2>1 DEF Rename, RenameTmp
  <2>2. ASSUME NEW w \in Writers, Fill(w) PROVE FALSE
      BY <2>2 DEF Fill, FillTmp
  <2> QED
      BY <2>1, <2>2 DEF Next, Begin, Open, OpenTmp, RenameError, RenameFails,
                        Record, Die, CloseDescriptor, pointerVars, history
<1> QED
    BY <1>1, AlwaysSound, AlwaysMixedInv, PTL DEF Spec, SwapInstallsTarget
=============================================================================
