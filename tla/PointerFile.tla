------------------------------ MODULE PointerFile ------------------------------
(***************************************************************************)
(* state/current-pointer.json and the temporary file beside it, at the     *)
(* granularity of the system calls of BackupRepository::write_current_     *)
(* pointer (crates/storage/src/repository.rs):                             *)
(*                                                                         *)
(*    fs::write(tmp)    open with O_CREAT | O_TRUNC, then write and close   *)
(*    fs::rename(tmp, dst)                                                 *)
(*                                                                         *)
(* The name of the temporary file is fixed, so every writer of every       *)
(* process that shares the root directory uses the same one.  A rename     *)
(* moves the file, not its contents: a writer that still has it open goes  *)
(* on writing to the same file under its new name.  That is all that the   *)
(* identity of an inode is needed for, so an open descriptor is modelled   *)
(* by the name under which its file can currently be reached.              *)
(*                                                                         *)
(* This module has the state and the system calls.  RollbackPointer and    *)
(* Repository extend it with the callers.                                  *)
(***************************************************************************)
EXTENDS Integers

CONSTANT Writers    \* the tasks that call write_current_pointer

VARIABLES
    tmp,    \* contents of current-pointer.json.tmp
    dst,    \* contents of current-pointer.json
    fd      \* per writer, where the file it has open can be reached

pointerVars == <<tmp, dst, fd>>

\* A pointer file names a backup by its id, a positive number; it may also
\* not exist, be empty, or hold bytes that are not a whole JSON document.
Absent == 0
Empty == -1
Garbled == -2
PointerContents == Nat \cup {Empty, Garbled}

Descriptors == {"closed", "tmp", "dst", "unlinked"}

PointerTypeOK ==
    /\ tmp \in PointerContents
    /\ dst \in PointerContents
    /\ fd \in [Writers -> Descriptors]

PointerInit ==
    /\ tmp = Absent
    /\ dst = Absent
    /\ fd = [w \in Writers |-> "closed"]

-----------------------------------------------------------------------------
\* Mutant: the file is opened without O_TRUNC.
OpenTmpKeeping(w) ==
    /\ tmp' = IF tmp = Absent THEN Empty ELSE tmp
    /\ fd' = [fd EXCEPT ![w] = "tmp"]
    /\ UNCHANGED dst

\* fs::write, first half: the file exists from here on and is empty, also for
\* another writer that has just filled it and not renamed it yet.
OpenTmp(w) ==
    /\ tmp' = Empty
    /\ fd' = [fd EXCEPT ![w] = "tmp"]
    /\ UNCHANGED dst

\* What a write from offset 0 leaves in a file that held old.  Two pointers
\* may differ in length (updated_at is printed with 0, 3, 6 or 9 decimals), so
\* writing over another one may leave its last bytes behind.
Overwrite(old, id) ==
    IF old = Empty THEN {id} ELSE {id, Garbled}

\* fs::write, second half: the bytes reach the file wherever it is by now.
FillTmp(w, id) ==
    /\ fd' = [fd EXCEPT ![w] = "closed"]
    /\ \/ /\ fd[w] = "tmp"
          /\ tmp' \in Overwrite(tmp, id)
          /\ UNCHANGED dst
       \/ /\ fd[w] = "dst"
          /\ dst' \in Overwrite(dst, id)
          /\ UNCHANGED tmp
       \/ /\ fd[w] = "unlinked"
          /\ UNCHANGED <<tmp, dst>>

\* The rename takes whatever file has the temporary name now.  Descriptors
\* follow their files: the old destination loses its last name.
RenameTmp ==
    /\ tmp # Absent
    /\ dst' = tmp
    /\ tmp' = Absent
    /\ fd' = [w \in Writers |-> IF fd[w] = "tmp" THEN "dst"
                                ELSE IF fd[w] = "dst" THEN "unlinked"
                                ELSE fd[w]]

\* ... and fails with ENOENT if another writer has renamed it already.
RenameFails ==
    /\ tmp = Absent
    /\ UNCHANGED pointerVars

\* A writer that dies has its descriptor closed by the kernel.
CloseDescriptor(w) ==
    /\ fd' = [fd EXCEPT ![w] = "closed"]
    /\ UNCHANGED <<tmp, dst>>
=============================================================================
