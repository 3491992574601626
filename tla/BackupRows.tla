------------------------------- MODULE BackupRows -------------------------------
(***************************************************************************)
(* Backup entries (crates/core/src/backup.rs) and what the two metadata    *)
(* stores make of them: SQLite keeps times as RFC 3339 text and compares   *)
(* this text, Postgres keeps microseconds.                                 *)
(***************************************************************************)
EXTENDS Integers, Sequences

CONSTANTS
    Ids, Hashes,
    Instants     \* times that the clock may show

Thousand == 0 .. 999
AllInstants == [sec : Nat, ms : Thousand, us : Thousand, ns : Thousand]

ASSUME InstantAssumption == Instants \subseteq AllInstants

Before(t, u) ==
    \/ t.sec < u.sec
    \/ t.sec = u.sec /\ t.ms < u.ms
    \/ t.sec = u.sec /\ t.ms = u.ms /\ t.us < u.us
    \/ t.sec = u.sec /\ t.ms = u.ms /\ t.us = u.us /\ t.ns < u.ns

-----------------------------------------------------------------------------
\* NewBackupEntry::created and ::skipped_unchanged, with the id they get.
CreatedEntry(i, t, h) ==
    [id |-> i, at |-> t, dir |-> "dir", hash |-> h,
     status |-> "Created", skip_reason |-> "None", stats |-> "Some"]

SkippedEntry(i, t, h) ==
    [id |-> i, at |-> t, dir |-> "", hash |-> h,
     status |-> "Skipped", skip_reason |-> "Unchanged", stats |-> "None"]

Entries == {CreatedEntry(i, t, h) : i \in Ids, t \in Instants, h \in Hashes}
               \cup {SkippedEntry(i, t, h) : i \in Ids, t \in Instants, h \in Hashes}

-----------------------------------------------------------------------------
\* to_rfc3339: date and time up to the second, then as many groups of three
\* decimals as it takes, then +00:00.  A group, and all in front of the decimals,
\* have a fixed width, so each is one symbol; + sorts before the decimal point,
\* and that before the digits.
Plus == -2
Dot == -1
Zulu == 1000

Rfc3339Zulu(t) ==
    IF t.ns # 0 THEN <<t.sec, Dot, t.ms, t.us, t.ns, Zulu>>
    ELSE IF t.us # 0 THEN <<t.sec, Dot, t.ms, t.us, Zulu>>
    ELSE IF t.ms # 0 THEN <<t.sec, Dot, t.ms, Zulu>>
    ELSE <<t.sec, Zulu>>

Rfc3339(t) ==
    IF t.ns # 0 THEN <<t.sec, Dot, t.ms, t.us, t.ns, Plus>>
    ELSE IF t.us # 0 THEN <<t.sec, Dot, t.ms, t.us, Plus>>
    ELSE IF t.ms # 0 THEN <<t.sec, Dot, t.ms, Plus>>
    ELSE <<t.sec, Plus>>

\* parse_ts, for text that to_rfc3339 has written.
ParseTs(x) ==
    [sec |-> x[1],
     ms |-> IF Len(x) > 3 THEN x[3] ELSE 0,
     us |-> IF Len(x) > 4 THEN x[4] ELSE 0,
     ns |-> IF Len(x) > 5 THEN x[5] ELSE 0]

\* SQLite compares text byte by byte; a text sorts after its prefixes.
TextLess(x, y) ==
    \E i \in 1 .. Len(y) :
        /\ \A j \in 1 .. i - 1 : j <= Len(x) /\ x[j] = y[j]
        /\ i <= Len(x) => x[i] < y[i]

\* TIMESTAMPTZ: sqlx sends whole microseconds.
Micros(t) == [t EXCEPT !.ns = 0]

-----------------------------------------------------------------------------
\* status_str and skip_reason_str, parse_status and parse_skip_reason: both
\* stores have the same ones.
StatusStr(status) == IF status = "Created" THEN "created" ELSE "skipped"

ParseStatus(raw) == IF raw = "skipped" THEN "Skipped" ELSE "Created"

SkipReasonStr(reason) == IF reason = "None" THEN "NULL" ELSE "unchanged"

ParseSkipReason(raw) == IF raw = "NULL" THEN "None" ELSE "Unchanged"
=============================================================================
