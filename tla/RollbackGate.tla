------------------------------ MODULE RollbackGate ------------------------------
(***************************************************************************)
(* POST /backups/:id/rollback of one daemon (crates/daemon/src/server.rs,  *)
(* rollback_backup): the refusals, the gate and its limit of one rollback  *)
(* in ten seconds, the steps of rollback_to, the upload to AnkiWeb, and    *)
(* the status each of them answers with.  Connections may be dropped, the  *)
(* daemon may restart, an upload may be applied after its client gave up,  *)
(* and neither run_once nor the other Anki clients ask at the gate.        *)
(*                                                                         *)
(* How rollback_to changes the pointer file and the table is the subject   *)
(* of RollbackPointer and Repository; here each is one step that works or  *)
(* fails.                                                                  *)
(***************************************************************************)
EXTENDS Integers, Sequences, FiniteSets

CONSTANTS
    Requests,        \* connections, each of which may ask again and again
    Backups,         \* ids of created backups
    TicksPerSecond,  \* resolution of Utc::now() against num_seconds
    Limit,           \* the ten seconds
    MaxBack,         \* how many ticks the wall clock may be set back
    Drops,           \* BOOLEAN: connections may be dropped
    Restarts         \* BOOLEAN: the daemon may be restarted

NoOne == "NoOne"
NoAnswer == 0
Other == "Other"    \* what no rollback has put there: a backup that run_once has
                    \* made, a collection of another Anki client

ASSUME GateAssumption ==
    /\ NoOne \notin Requests
    /\ Backups \cap {Other, "malformed", "unknown"} = {}
    /\ Drops \in BOOLEAN /\ Restarts \in BOOLEAN
    /\ TicksPerSecond \in Nat \ {0} /\ Limit \in Nat /\ MaxBack \in Nat

VARIABLES
    sync_config,  \* of AppState: "Some", or "None" without credentials
    pc,       \* where each request is
    target,   \* the id in its path
    queue,    \* requests that wait for rollback_gate, in order of arrival
    holder,   \* the request that has the gate
    age,      \* Utc::now() minus the time in the gate, in ticks
    pointer,  \* the backup that current-pointer.json names
    web,      \* the collection that AnkiWeb has, by the backup it came from
    late,     \* uploads AnkiWeb may still apply although the client gave up
    answer,   \* status of each request's last answer
    done,     \* what each request has changed, on AnkiWeb as well
    since,    \* history: ticks since the last answer 200
    settled   \* history: whether the last swap has been answered with 200

control == <<pc, target, queue, holder, sync_config>>
effects == <<pointer, web, late>>
history == <<done, since, settled>>
vars == <<control, age, effects, answer, history>>

-----------------------------------------------------------------------------
Targets == Backups \cup {"malformed", "unknown"}
Locations == {"idle", "waiting", "rollback", "record", "upload"}

\* Ages are counted up to the limit; beyond it nothing tells them apart.
Cap == Limit * TicksPerSecond
Never == Cap + 1
Ages == -MaxBack .. Never

Configured == sync_config = "Some"

TypeOK ==
    /\ sync_config \in {"Some", "None"}
    /\ pc \in [Requests -> Locations]
    /\ target \in [Requests -> Targets]
    /\ queue \in Seq(Requests)
    /\ holder \in Requests \cup {NoOne}
    /\ age \in Ages
    /\ pointer \in Backups \cup {Other}
    /\ web \in Backups \cup {Other}
    /\ late \subseteq Backups
    /\ answer \in [Requests -> {NoAnswer, 200, 400, 401, 403, 429, 500, 502}]
    /\ done \in [Requests -> SUBSET {"pointer", "event", "web"}]
    /\ since \in Ages
    /\ settled \in {"no", "swapped", "yes"}

Init ==
    /\ sync_config \in {"Some", "None"}
    /\ pc = [h \in Requests |-> "idle"]
    /\ target = [h \in Requests |-> "unknown"]
    /\ queue = <<>>
    /\ holder = NoOne
    /\ age = Never
    /\ pointer = Other
    /\ web = Other
    /\ late = {}
    /\ answer = [h \in Requests |-> NoAnswer]
    /\ done = [h \in Requests |-> {}]
    /\ since = Never
    /\ settled = "no"

\* TimeDelta::num_seconds drops the fraction, towards zero.
NumSeconds(d) == IF d < 0 THEN -((-d) \div TicksPerSecond)
                          ELSE d \div TicksPerSecond

TooSoonOffByOne == age # Never /\ NumSeconds(age) < Limit - 1

TooSoon == age # Never /\ NumSeconds(age) < Limit

Did(h, what) == done' = [done EXCEPT ![h] = @ \cup {what}]

\* The handler is gone.
Gone(h) ==
    /\ pc' = [pc EXCEPT ![h] = "idle"]
    /\ target' = [target EXCEPT ![h] = "unknown"]

\* The handler returns, and the guard of the gate is dropped with it.
AnswerKeepsGate(h, status) ==
    /\ Gone(h)
    /\ answer' = [answer EXCEPT ![h] = status]
    /\ holder' = IF status = 502 THEN holder ELSE NoOne

Answer(h, status) ==
    /\ Gone(h)
    /\ answer' = [answer EXCEPT ![h] = status]
    /\ holder' = NoOne

-----------------------------------------------------------------------------
\* require_api_auth and the CSRF check, before the gate is looked at.
Refuse(h) ==
    /\ pc[h] = "idle"
    /\ \E status \in {401, 403} : answer' = [answer EXCEPT ![h] = status]
    /\ done' = [done EXCEPT ![h] = {}]
    /\ UNCHANGED <<control, age, effects, since, settled>>

\* rollback_gate.lock(): tokio's mutex serves its waiters in order.
Ask(h) ==
    /\ pc[h] = "idle"
    /\ pc' = [pc EXCEPT ![h] = "waiting"]
    /\ \E t \in Targets : target' = [target EXCEPT ![h] = t]
    /\ queue' = Append(queue, h)
    /\ answer' = [answer EXCEPT ![h] = NoAnswer]
    /\ done' = [done EXCEPT ![h] = {}]
    /\ UNCHANGED <<holder, sync_config, age, effects, since, settled>>

EnterUngated(h) ==
    /\ queue # <<>> /\ Head(queue) = h
    /\ queue' = Tail(queue)
    /\ ~TooSoon
    /\ pc' = [pc EXCEPT ![h] = "rollback"]
    /\ UNCHANGED <<target, sync_config, holder, age, effects, answer, history>>

\* The request has the gate.  The rate limit and the parsing of the id come
\* before the first await, so a refused one gives the gate back at once.
Enter(h) ==
    /\ pc[h] = "waiting" /\ holder = NoOne
    /\ queue # <<>> /\ Head(queue) = h
    /\ queue' = Tail(queue)
    /\ \/ TooSoon /\ Answer(h, 429)
       \/ ~TooSoon /\ target[h] = "malformed" /\ Answer(h, 400)
       \/ /\ ~TooSoon /\ target[h] # "malformed"
          /\ holder' = h
          /\ pc' = [pc EXCEPT ![h] = "rollback"]
          /\ UNCHANGED <<target, answer>>
    /\ UNCHANGED <<sync_config, age, effects, history>>

\* rollback_to: any error before the pointer is renamed is answered with 400.
RollbackFails(h) ==
    /\ pc[h] = "rollback"
    /\ Answer(h, 400)
    /\ UNCHANGED <<sync_config, queue, age, effects, history>>

SwapUnchecked(h) ==
    /\ pc[h] = "rollback"
    /\ pointer' = target[h]
    /\ pc' = [pc EXCEPT ![h] = "record"]
    /\ UNCHANGED <<target, sync_config, queue, holder, age, web, late, answer, history>>

SwapPointer(h) ==
    /\ pc[h] = "rollback"
    /\ target[h] \in Backups
    /\ pointer' = target[h]
    /\ Did(h, "pointer")
    /\ settled' = IF late = {} THEN "swapped" ELSE "no"
    /\ pc' = [pc EXCEPT ![h] = "record"]
    /\ UNCHANGED <<target, sync_config, queue, holder, age, web, late, answer,
                   since>>

\* The event is or is not recorded, which its writer will not learn.
EventUnknown(h) ==
    done' \in {done, [done EXCEPT ![h] = @ \cup {"event"}]}

\* insert_rollback_event fails: also 400, with the pointer swapped.
RecordFails(h) ==
    /\ pc[h] = "record"
    /\ EventUnknown(h)
    /\ Answer(h, 400)
    /\ UNCHANGED <<sync_config, queue, age, effects, since, settled>>

\* The whole rollback succeeded: only now the gate takes the time.
Finish(h) ==
    /\ Answer(h, 200)
    /\ age' = 0
    /\ since' = 0
    /\ settled' = IF settled = "swapped" THEN "yes" ELSE "no"

\* The event is recorded.  Without credentials this was all; otherwise the
\* payload is read, and if it cannot be, the answer is 500.
Record(h) ==
    /\ pc[h] = "record"
    /\ Did(h, "event")
    /\ \/ ~Configured /\ Finish(h)
       \/ Configured /\ Answer(h, 500) /\ UNCHANGED <<age, since, settled>>
       \/ /\ Configured
          /\ pc' = [pc EXCEPT ![h] = "upload"]
          /\ UNCHANGED <<holder, target, answer, age, since, settled>>
    /\ UNCHANGED <<sync_config, queue, effects>>

\* AnkiWeb replaces the collection, while the client waits for its answer.
ApplyUpload(h) ==
    /\ pc[h] = "upload"
    /\ "web" \notin done[h]
    /\ web' = target[h]
    /\ Did(h, "web")
    /\ UNCHANGED <<control, age, pointer, late, answer, since, settled>>

UploadNotAwaited(h) ==
    /\ pc[h] = "upload"
    /\ Finish(h)
    /\ UNCHANGED <<sync_config, queue, effects, done>>

UploadOk(h) ==
    /\ pc[h] = "upload"
    /\ "web" \in done[h]
    /\ Finish(h)
    /\ UNCHANGED <<sync_config, queue, effects, done>>

Abandoned(h) ==
    IF pc[h] = "upload" /\ "web" \notin done[h] THEN {target[h]} ELSE {}

\* Refused, lost or timed out, before or after AnkiWeb took the bytes.
UploadFails(h) ==
    /\ pc[h] = "upload"
    /\ Answer(h, 502)
    /\ late' = late \cup Abandoned(h)
    /\ UNCHANGED <<sync_config, queue, age, pointer, web, history>>

\* It may have been the only late upload of this backup or one of several.
ApplyLate ==
    /\ \E b \in late : web' = b /\ late' \in {late, late \ {b}}
    /\ UNCHANGED <<control, age, pointer, answer, history>>

\* The scheduler's run_once has made a backup and writes the pointer.
RunPoints ==
    /\ pointer' = Other
    /\ UNCHANGED <<control, age, web, late, answer, history>>

\* Another Anki client syncs.
Edit ==
    /\ web' = Other
    /\ UNCHANGED <<control, age, pointer, late, answer, history>>

\* A waiter that is dropped takes itself out of the queue.
Leave(h) ==
    IF pc[h] = "waiting"
    THEN \E i \in DOMAIN queue :
            /\ queue[i] = h
            /\ queue' = [j \in 1 .. Len(queue) - 1 |->
                            IF j < i THEN queue[j] ELSE queue[j + 1]]
    ELSE UNCHANGED queue

\* Mutant: the gate is given back at the end of the handler, not by its guard.
DropKeepsGate(h) ==
    /\ Drops
    /\ pc[h] # "idle"
    /\ Gone(h)
    /\ Leave(h)
    /\ late' = late \cup Abandoned(h)
    /\ UNCHANGED <<holder, sync_config, age, pointer, web, answer, history>>

\* The connection is closed: axum drops the handler at the await it is in.  An
\* insert that has been spawned goes on without it.
Drop(h) ==
    /\ Drops
    /\ pc[h] # "idle"
    /\ Gone(h)
    /\ Leave(h)
    /\ holder' = IF holder = h THEN NoOne ELSE holder
    /\ late' = late \cup Abandoned(h)
    /\ IF pc[h] = "record" THEN EventUnknown(h) ELSE UNCHANGED done
    /\ UNCHANGED <<sync_config, age, pointer, web, answer, since, settled>>

\* A restart loses all requests and the time in the gate.
Restart ==
    /\ Restarts
    /\ pc' = [h \in Requests |-> "idle"]
    /\ target' = [h \in Requests |-> "unknown"]
    /\ queue' = <<>>
    /\ holder' = NoOne
    /\ age' = Never
    /\ late' = late \cup UNION {Abandoned(h) : h \in Requests}
    /\ since' = Never
    /\ UNCHANGED <<sync_config, pointer, web, answer, done, settled>>

Older(a) == IF a < Cap THEN a + 1 ELSE a

Tick ==
    /\ age' = Older(age)
    /\ since' = Older(since)
    /\ UNCHANGED <<control, effects, answer, done, settled>>

\* The wall clock is corrected backwards; Utc::now() is not monotonic.
SetBack ==
    /\ age # Never
    /\ age' \in -MaxBack .. (age - 1)
    /\ UNCHANGED <<control, effects, answer, history>>

Handle(h) ==
    \/ Enter(h) \/ RollbackFails(h) \/ SwapPointer(h)
    \/ RecordFails(h) \/ Record(h) \/ UploadOk(h) \/ UploadFails(h)

Next ==
    \/ \E h \in Requests : Refuse(h) \/ Ask(h) \/ Handle(h)
                           \/ ApplyUpload(h) \/ Drop(h)
    \/ ApplyLate \/ RunPoints \/ Edit \/ Restart \/ Tick \/ SetBack

Spec == Init /\ [][Next]_vars

\* A handler that can go on does: the runtime polls it, the disk and the
\* database answer, and every request of the upload ends by its timeout.
\* Nothing is assumed of AnkiWeb, of the clock, or of who asks.
FairSpec == Spec /\ \A h \in Requests : WF_vars(Handle(h))

-----------------------------------------------------------------------------
Local == {"pointer", "event"}

Truthful(config, status, did) ==
    /\ status \in {401, 403, 429} => did = {}
    /\ status = 200 => did = IF config = "Some" THEN Local \cup {"web"} ELSE Local
    /\ status = 500 => did = Local
    /\ status = 502 => Local \subseteq did
    /\ status = 400 => did \subseteq Local

\* What a status says about the rollback it answers: refused by 401, 403 or 429
\* it changed nothing; with 200 pointer and audit record are done, and the
\* upload if there are credentials; 500 and 502 mean that the local part is
\* done; after 400 the pointer may have moved, but nothing was sent.
StatusTruthful == \A h \in Requests : Truthful(sync_config, answer[h], done[h])

\* After a rollback was answered with 200, and until the next one swaps the
\* pointer, a difference between AnkiWeb and the pointer is the work of run_once,
\* which writes the pointer without the gate, or of another Anki client: as long
\* as both have what a rollback put there it is the same backup, since the gate
\* is held over the whole handler and no other upload comes between.  (An upload
\* that was given up before the swap, and that AnkiWeb had not applied by then,
\* can; settled leaves this case out.)
WebFollowsPointer ==
    Configured /\ settled = "yes" /\ pointer # Other /\ web # Other =>
        web = pointer

\* Two answers 200 of one life of the daemon are Limit seconds apart in real
\* time, also when the wall clock is set back in between.  (A clock that is set
\* forward would count as time that has passed; it is not modelled.)
OksSpaced ==
    [][\A h \in Requests :
          answer'[h] = 200 /\ answer[h] # 200 =>
              since >= Cap]_vars

\* No request is stranded at the gate: who has it is in the handler behind it,
\* and who waits for it is in the queue, once, whichever connections are dropped
\* and wherever the handler returns.
NoneStranded ==
    /\ holder # NoOne => pc[holder] \in {"rollback", "record", "upload"}
    /\ \A h \in Requests :
          pc[h] = "waiting" => \E i \in DOMAIN queue : queue[i] = h
    /\ \A i \in DOMAIN queue : pc[queue[i]] = "waiting"
    /\ \A i, j \in DOMAIN queue : queue[i] = queue[j] => i = j

\* Every request is answered, or its connection or daemon ends: no path through
\* the handler keeps the gate, and the waiters are served in order.
RequestsEnd == \A h \in Requests : pc[h] # "idle" ~> pc[h] = "idle"
=============================================================================
