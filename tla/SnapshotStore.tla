----------------------------- MODULE SnapshotStore -----------------------------
(***************************************************************************)
(* What a backup repository promises, without directories, tables, tasks   *)
(* or crashes: a catalog of immutable snapshots.  A snapshot appears whole,  *)
(* in one step and under an identity of its own; while it is in the        *)
(* catalog its bytes never change; it leaves the catalog only when its     *)
(* retention period is over.  README.md and sections 1 and 3 of            *)
(* CODEX_IMPLEMENTATION_INSTRUCTIONS.md describe the tool in these terms.  *)
(***************************************************************************)
EXTENDS Integers

CONSTANTS
    Identities, \* names of snapshots
    Bytes,      \* collections
    KeepFor     \* retention period, 0 to keep snapshots for ever

VARIABLES
    now,        \* the time
    catalog,    \* the snapshots that can be restored, with the bytes that a
                \* restore would deliver
    published   \* every snapshot there has ever been

vars == <<now, catalog, published>>

Init ==
    /\ now = 0
    /\ catalog = {}
    /\ published = {}

Advance ==
    /\ now' = now + 1
    /\ UNCHANGED <<catalog, published>>

Publish(s) ==
    /\ \A p \in published : p.id # s.id
    /\ catalog' = catalog \cup {s}
    /\ published' = published \cup {s}
    /\ UNCHANGED now

OutOfDate(s) == KeepFor > 0 /\ s.born + KeepFor < now

Retire(S) ==
    /\ \A s \in S : OutOfDate(s)
    /\ catalog' = catalog \ S
    /\ UNCHANGED <<now, published>>

Next ==
    \/ Advance
    \/ \E i \in Identities, t \in 0 .. now, b \in Bytes :
            Publish([id |-> i, born |-> t, content |-> b])
    \/ \E S \in SUBSET catalog : Retire(S)

Spec == Init /\ [][Next]_vars
=============================================================================
