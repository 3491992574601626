--------------------------- MODULE RollbackGateProofs ---------------------------
(***************************************************************************)
(* The safety properties of the rollback handler for any number of         *)
(* connections and backups, any limit and any resolution of the clock.     *)
(***************************************************************************)
EXTENDS RollbackGate, SequenceTheorems, TLAPS

USE DEF Gone

InGate == {"rollback", "record", "upload"}
Swapped == {"record", "upload"}

\* The part of TypeOK that the other safety properties depend on, and what a
\* request that has swapped the pointer asked for.
TypeInv ==
    /\ pc \in [Requests -> Locations]
    /\ target \in [Requests -> Targets]
    /\ holder \in Requests \cup {NoOne}
    /\ age \in Ages
    /\ late \subseteq Backups
    /\ answer \in [Requests -> {NoAnswer, 200, 400, 401, 403, 429, 500, 502}]
    /\ done \in [Requests -> SUBSET {"pointer", "event", "web"}]
    /\ since \in Ages
    /\ settled \in {"no", "swapped", "yes"}
    /\ \A h \in Requests : pc[h] \in Swapped => target[h] \in Backups

\* The gate: who is past it holds it.
Exclusive == \A h \in Requests : pc[h] \in InGate => holder = h

\* What a request has done by the time it is at each location.
Progress ==
    \A h \in Requests :
        /\ pc[h] # "idle" => answer[h] = NoAnswer
        /\ pc[h] \in {"waiting", "rollback"} => done[h] = {}
        /\ pc[h] = "record" => done[h] = {"pointer"}
        /\ pc[h] = "upload" =>
              Configured /\ done[h] \in {Local, Local \cup {"web"}}
        /\ pc[h] \in Swapped => pointer \in {target[h], Other}

\* As long as the last swap is settled or on its way to be, no upload is late.
Settling ==
    /\ \A h \in Requests :
          settled = "swapped" /\ pc[h] \in Swapped =>
              late = {} /\ ("web" \in done[h] => web \in {target[h], Other})
    /\ settled = "yes" =>
          /\ late = {}
          /\ \A h \in Requests : pc[h] \notin Swapped
          /\ Configured /\ pointer # Other /\ web # Other => web = pointer

\* The wall clock never makes an answer look older than it is.
Spacing ==
    /\ since >= 0
    /\ age = Never => since = Never
    /\ age # Never => age <= since
    /\ holder # NoOne => since >= Cap

Inv == TypeInv /\ Exclusive /\ Progress /\ StatusTruthful /\ Settling /\ Spacing
-----------------------------------------------------------------------------
\* Time in ticks; the limit may be zero.
LEMMA CapType == Cap \in Nat
BY GateAssumption DEF Cap

\* What the comparison in whole seconds ensures in ticks, also if the wall clock
\* has been set back behind the time in the gate.
LEMMA NotTooSoon ==
    ASSUME age \in Ages, ~TooSoon
    PROVE  age = Never \/ age >= Cap \/ Cap = 0
<1> SUFFICES ASSUME age # Never PROVE age >= Cap \/ Cap = 0
  OBVIOUS
<1> DEFINE T == TicksPerSecond
<1>1. age \in Int /\ T \in Nat \ {0} /\ Limit \in Nat
  BY CapType, GateAssumption DEF Ages, Never
<1>2. NumSeconds(age) >= Limit
  BY <1>1 DEF TooSoon, NumSeconds
<1>3. CASE age < 0
  <2>1. (-age) \div T >= 0 /\ (-age) \div T \in Int
    BY <1>1, <1>3
  <2>2. Limit = 0
    BY <1>1, <1>2, <1>3, <2>1 DEF NumSeconds
  <2> QED BY <1>1, <2>2 DEF Cap
<1>4. CASE age >= 0
  <2>1. age \div T >= Limit /\ age \div T \in Int
    BY <1>1, <1>2, <1>4 DEF NumSeconds
  <2>2. age >= T * (age \div T)
    BY <1>1, <1>4
  <2>3. T * (age \div T) >= T * Limit
    BY <1>1, <2>1
  <2> HIDE DEF T
  <2>4. T * Limit \in Int /\ T * (age \div T) \in Int /\ T * Limit = Limit * T
    BY <1>1, <2>1
  <2>5. age >= Limit * T
    BY <1>1, <2>2, <2>3, <2>4
  <2> QED BY <2>5 DEF Cap, T
<1> QED BY <1>1, <1>3, <1>4

LEMMA TypeInvNext ==
    TypeInv /\ [Next]_vars => TypeInv'
<1> SUFFICES ASSUME TypeInv, [Next]_vars PROVE TypeInv'
  OBVIOUS
<1> USE CapType, GateAssumption DEF TypeInv, Locations, Targets, Swapped, NoAnswer, Never, Ages, control, effects, history
<1>1. ASSUME NEW h \in Requests, Refuse(h) PROVE TypeInv'
  BY <1>1 DEF Refuse
<1>2. ASSUME NEW h \in Requests, Ask(h) PROVE TypeInv'
  BY <1>2 DEF Ask
<1>3. ASSUME NEW h \in Requests, Enter(h) PROVE TypeInv'
  <2>1. \/ \E status \in {429, 400} : Answer(h, status)
        \/ /\ holder' = h
           /\ pc' = [pc EXCEPT ![h] = "rollback"]
           /\ UNCHANGED <<target, answer>>
    BY <1>3 DEF Enter
  <2>2. UNCHANGED <<age, effects, history>>
    BY <1>3 DEF Enter
  <2>3. CASE \E status \in {429, 400} : Answer(h, status)
    BY <2>2, <2>3 DEF Answer
  <2>4. CASE /\ holder' = h
             /\ pc' = [pc EXCEPT ![h] = "rollback"]
             /\ UNCHANGED <<target, answer>>
    BY <2>2, <2>4
  <2> QED BY <2>1, <2>3, <2>4
<1>4. ASSUME NEW h \in Requests, RollbackFails(h) PROVE TypeInv'
  BY <1>4 DEF RollbackFails, Answer
<1>5. ASSUME NEW h \in Requests, SwapPointer(h) PROVE TypeInv'
  BY <1>5 DEF SwapPointer, Did
<1>6. ASSUME NEW h \in Requests, RecordFails(h) PROVE TypeInv'
  BY <1>6 DEF RecordFails, Answer, EventUnknown
<1>7. ASSUME NEW h \in Requests, Record(h) PROVE TypeInv'
  BY <1>7 DEF Record, Answer, Did, Finish
<1>8. ASSUME NEW h \in Requests, ApplyUpload(h) PROVE TypeInv'
  BY <1>8 DEF ApplyUpload, Did
<1>9. ASSUME NEW h \in Requests, UploadOk(h) PROVE TypeInv'
  BY <1>9 DEF UploadOk, Answer, Finish
<1>10. ASSUME NEW h \in Requests, UploadFails(h) PROVE TypeInv'
  BY <1>10 DEF UploadFails, Answer, Abandoned
<1>11. ASSUME NEW h \in Requests, Drop(h) PROVE TypeInv'
  BY <1>11 DEF Drop, Abandoned, EventUnknown
<1>12. CASE ApplyLate
  BY <1>12 DEF ApplyLate
<1>13. CASE Restart
  BY <1>13 DEF Restart, Abandoned
<1>14. CASE Tick
  BY <1>14 DEF Tick, Older
<1>15. CASE SetBack
  BY <1>15 DEF SetBack
<1>16. CASE UNCHANGED vars
  BY <1>16 DEF vars
<1>17. CASE RunPoints \/ Edit
  BY <1>17 DEF RunPoints, Edit
<1> HIDE DEF TypeInv
<1> QED
  BY <1>1, <1>2, <1>3, <1>4, <1>5, <1>6, <1>7, <1>8, <1>9, <1>10, <1>11,
     <1>12, <1>13, <1>14, <1>15, <1>16, <1>17 DEF Next, Handle

LEMMA ExclusiveNext ==
    TypeInv /\ Exclusive /\ [Next]_vars => Exclusive'
<1> SUFFICES ASSUME TypeInv, Exclusive, [Next]_vars PROVE Exclusive'
  OBVIOUS
<1> USE GateAssumption DEF TypeInv, Exclusive, InGate, Locations, control, effects, history
<1>1. ASSUME NEW h \in Requests, Refuse(h) PROVE Exclusive'
  BY <1>1 DEF Refuse
<1>2. ASSUME NEW h \in Requests, Ask(h) PROVE Exclusive'
  BY <1>2 DEF Ask
<1>3. ASSUME NEW h \in Requests, Enter(h) PROVE Exclusive'
  BY <1>3 DEF Enter, Answer
<1>4. ASSUME NEW h \in Requests, RollbackFails(h) PROVE Exclusive'
  BY <1>4 DEF RollbackFails, Answer
<1>5. ASSUME NEW h \in Requests, SwapPointer(h) PROVE Exclusive'
  BY <1>5 DEF SwapPointer, Did
<1>6. ASSUME NEW h \in Requests, RecordFails(h) PROVE Exclusive'
  BY <1>6 DEF RecordFails, Answer, EventUnknown
<1>7. ASSUME NEW h \in Requests, Record(h) PROVE Exclusive'
  BY <1>7 DEF Record, Answer, Did, Finish
<1>8. ASSUME NEW h \in Requests, ApplyUpload(h) PROVE Exclusive'
  BY <1>8 DEF ApplyUpload, Did
<1>9. ASSUME NEW h \in Requests, UploadOk(h) PROVE Exclusive'
  BY <1>9 DEF UploadOk, Answer, Finish
<1>10. ASSUME NEW h \in Requests, UploadFails(h) PROVE Exclusive'
  BY <1>10 DEF UploadFails, Answer, Abandoned
<1>11. ASSUME NEW h \in Requests, Drop(h) PROVE Exclusive'
  BY <1>11 DEF Drop, Abandoned, EventUnknown
<1>12. CASE ApplyLate
  BY <1>12 DEF ApplyLate
<1>13. CASE Restart
  BY <1>13 DEF Restart, Abandoned
<1>14. CASE Tick
  BY <1>14 DEF Tick, Older
<1>15. CASE SetBack
  BY <1>15 DEF SetBack
<1>16. CASE UNCHANGED vars
  BY <1>16 DEF vars
<1>17. CASE RunPoints \/ Edit
  BY <1>17 DEF RunPoints, Edit
<1> HIDE DEF TypeInv, Exclusive
<1> QED
  BY <1>1, <1>2, <1>3, <1>4, <1>5, <1>6, <1>7, <1>8, <1>9, <1>10, <1>11,
     <1>12, <1>13, <1>14, <1>15, <1>16, <1>17 DEF Next, Handle

LEMMA ProgressNext ==
    TypeInv /\ Exclusive /\ Progress /\ [Next]_vars => Progress'
<1> SUFFICES ASSUME TypeInv, Exclusive, Progress, [Next]_vars PROVE Progress'
  OBVIOUS
<1> USE GateAssumption DEF TypeInv, Exclusive, Progress, InGate, Swapped, Local, Locations, NoAnswer, Configured, control, effects, history
<1>1. ASSUME NEW h \in Requests, Refuse(h) PROVE Progress'
  BY <1>1 DEF Refuse
<1>2. ASSUME NEW h \in Requests, Ask(h) PROVE Progress'
  BY <1>2 DEF Ask
<1>3. ASSUME NEW h \in Requests, Enter(h) PROVE Progress'
  BY <1>3 DEF Enter, Answer
<1>4. ASSUME NEW h \in Requests, RollbackFails(h) PROVE Progress'
  BY <1>4 DEF RollbackFails, Answer
<1>5. ASSUME NEW h \in Requests, SwapPointer(h) PROVE Progress'
  BY <1>5 DEF SwapPointer, Did
<1>6. ASSUME NEW h \in Requests, RecordFails(h) PROVE Progress'
  BY <1>6 DEF RecordFails, Answer, EventUnknown
<1>7. ASSUME NEW h \in Requests, Record(h) PROVE Progress'
  BY <1>7 DEF Record, Answer, Did, Finish
<1>8. ASSUME NEW h \in Requests, ApplyUpload(h) PROVE Progress'
  BY <1>8 DEF ApplyUpload, Did
<1>9. ASSUME NEW h \in Requests, UploadOk(h) PROVE Progress'
  BY <1>9 DEF UploadOk, Answer, Finish
<1>10. ASSUME NEW h \in Requests, UploadFails(h) PROVE Progress'
  BY <1>10 DEF UploadFails, Answer, Abandoned
<1>11. ASSUME NEW h \in Requests, Drop(h) PROVE Progress'
  BY <1>11 DEF Drop, Abandoned, EventUnknown
<1>12. CASE ApplyLate
  BY <1>12 DEF ApplyLate
<1>13. CASE Restart
  BY <1>13 DEF Restart, Abandoned
<1>14. CASE Tick
  BY <1>14 DEF Tick, Older
<1>15. CASE SetBack
  BY <1>15 DEF SetBack
<1>16. CASE UNCHANGED vars
  BY <1>16 DEF vars
<1>17. CASE RunPoints \/ Edit
  BY <1>17 DEF RunPoints, Edit
<1> HIDE DEF TypeInv, Exclusive, Progress
<1> QED
  BY <1>1, <1>2, <1>3, <1>4, <1>5, <1>6, <1>7, <1>8, <1>9, <1>10, <1>11,
     <1>12, <1>13, <1>14, <1>15, <1>16, <1>17 DEF Next, Handle

\* AppState keeps its sync_config.
LEMMA ConfigFixed ==
    ASSUME [Next]_vars
    PROVE  sync_config' = sync_config
<1> USE DEF control
<1>1. ASSUME NEW h \in Requests, Refuse(h) \/ Ask(h) \/ ApplyUpload(h)
      PROVE  sync_config' = sync_config
  BY <1>1 DEF Refuse, Ask, ApplyUpload
<1>2. ASSUME NEW h \in Requests, Drop(h) PROVE sync_config' = sync_config
  BY <1>2, Zenon DEF Drop
<1>3. ASSUME NEW h \in Requests, Handle(h) PROVE sync_config' = sync_config
  <2>1. CASE Enter(h) \/ RollbackFails(h) \/ SwapPointer(h)
    BY <2>1, Zenon DEF Enter, RollbackFails, SwapPointer
  <2>2. CASE RecordFails(h) \/ Record(h)
    BY <2>2, Zenon DEF RecordFails, Record
  <2>3. CASE UploadOk(h) \/ UploadFails(h)
    BY <2>3, Zenon DEF UploadOk, UploadFails
  <2> QED BY <1>3, <2>1, <2>2, <2>3 DEF Handle
<1>4. ApplyLate \/ RunPoints \/ Edit \/ Restart \/ Tick \/ SetBack
        => sync_config' = sync_config
  BY Zenon DEF ApplyLate, RunPoints, Edit, Restart, Tick, SetBack
<1>5. UNCHANGED vars => sync_config' = sync_config
  BY DEF vars
<1> QED BY <1>1, <1>2, <1>3, <1>4, <1>5 DEF Next

LEMMA StatusTruthfulNext ==
    TypeInv /\ Exclusive /\ Progress /\ StatusTruthful /\ [Next]_vars => StatusTruthful'
<1> SUFFICES ASSUME TypeInv, Exclusive, Progress, StatusTruthful, [Next]_vars PROVE StatusTruthful'
  OBVIOUS
<1> USE GateAssumption DEF TypeInv, Progress, StatusTruthful, Local, Locations, NoAnswer, Configured, control, effects, history
<1>0. sync_config' = sync_config
  BY ConfigFixed
<1>1. ASSUME NEW h \in Requests, Refuse(h) PROVE StatusTruthful'
  <2>1. \A g \in Requests \ {h} : answer'[g] = answer[g] /\ done'[g] = done[g]
    BY <1>1 DEF Refuse
  <2>2. Truthful(sync_config, answer'[h], done'[h])
    BY <1>1 DEF Refuse, Truthful
  <2> QED BY <1>0, <2>1, <2>2
<1>2. ASSUME NEW h \in Requests, Ask(h) PROVE StatusTruthful'
  <2>1. \A g \in Requests \ {h} : answer'[g] = answer[g] /\ done'[g] = done[g]
    BY <1>2 DEF Ask
  <2>2. Truthful(sync_config, answer'[h], done'[h])
    BY <1>2 DEF Ask, Truthful
  <2> QED BY <1>0, <2>1, <2>2
<1>3. ASSUME NEW h \in Requests, Enter(h) PROVE StatusTruthful'
  <2>1. \A g \in Requests \ {h} : answer'[g] = answer[g] /\ done'[g] = done[g]
    BY <1>3 DEF Enter, Answer
  <2>2. Truthful(sync_config, answer'[h], done'[h])
    BY <1>3 DEF Enter, Answer, Truthful
  <2> QED BY <1>0, <2>1, <2>2
<1>4. ASSUME NEW h \in Requests, RollbackFails(h) PROVE StatusTruthful'
  <2>1. \A g \in Requests \ {h} : answer'[g] = answer[g] /\ done'[g] = done[g]
    BY <1>4 DEF RollbackFails, Answer
  <2>2. Truthful(sync_config, answer'[h], done'[h])
    BY <1>4 DEF RollbackFails, Answer, Truthful
  <2> QED BY <1>0, <2>1, <2>2
<1>5. ASSUME NEW h \in Requests, SwapPointer(h) PROVE StatusTruthful'
  <2>1. \A g \in Requests \ {h} : answer'[g] = answer[g] /\ done'[g] = done[g]
    BY <1>5 DEF SwapPointer, Did
  <2>2. Truthful(sync_config, answer'[h], done'[h])
    BY <1>5 DEF SwapPointer, Did, Truthful
  <2> QED BY <1>0, <2>1, <2>2
<1>6. ASSUME NEW h \in Requests, RecordFails(h) PROVE StatusTruthful'
  <2>1. \A g \in Requests \ {h} : answer'[g] = answer[g] /\ done'[g] = done[g]
    BY <1>6 DEF RecordFails, Answer, EventUnknown
  <2>2. Truthful(sync_config, answer'[h], done'[h])
    BY <1>6 DEF RecordFails, Answer, EventUnknown, Truthful
  <2> QED BY <1>0, <2>1, <2>2
<1>7. ASSUME NEW h \in Requests, Record(h) PROVE StatusTruthful'
  <2>1. \A g \in Requests \ {h} : answer'[g] = answer[g] /\ done'[g] = done[g]
    BY <1>7 DEF Record, Answer, Did, Finish
  <2>2. Truthful(sync_config, answer'[h], done'[h])
    BY <1>7 DEF Record, Answer, Did, Finish, Truthful
  <2> QED BY <1>0, <2>1, <2>2
<1>8. ASSUME NEW h \in Requests, ApplyUpload(h) PROVE StatusTruthful'
  <2>1. \A g \in Requests \ {h} : answer'[g] = answer[g] /\ done'[g] = done[g]
    BY <1>8 DEF ApplyUpload, Did
  <2>2. Truthful(sync_config, answer'[h], done'[h])
    BY <1>8 DEF ApplyUpload, Did, Truthful
  <2> QED BY <1>0, <2>1, <2>2
<1>9. ASSUME NEW h \in Requests, UploadOk(h) PROVE StatusTruthful'
  <2>1. \A g \in Requests \ {h} : answer'[g] = answer[g] /\ done'[g] = done[g]
    BY <1>9 DEF UploadOk, Answer, Finish
  <2>2. Truthful(sync_config, answer'[h], done'[h])
    BY <1>9 DEF UploadOk, Answer, Finish, Truthful
  <2> QED BY <1>0, <2>1, <2>2
<1>10. ASSUME NEW h \in Requests, UploadFails(h) PROVE StatusTruthful'
  <2>1. \A g \in Requests \ {h} : answer'[g] = answer[g] /\ done'[g] = done[g]
    BY <1>10 DEF UploadFails, Answer, Abandoned
  <2>2. Truthful(sync_config, answer'[h], done'[h])
    BY <1>10 DEF UploadFails, Answer, Abandoned, Truthful
  <2> QED BY <1>0, <2>1, <2>2
<1>11. ASSUME NEW h \in Requests, Drop(h) PROVE StatusTruthful'
  <2>1. \A g \in Requests \ {h} : answer'[g] = answer[g] /\ done'[g] = done[g]
    BY <1>11 DEF Drop, Abandoned, EventUnknown
  <2>2. Truthful(sync_config, answer'[h], done'[h])
    BY <1>11 DEF Drop, Abandoned, EventUnknown, Truthful
  <2> QED BY <1>0, <2>1, <2>2
<1>12. CASE ApplyLate
  BY <1>12 DEF ApplyLate
<1>13. CASE Restart
  BY <1>13 DEF Restart, Abandoned
<1>14. CASE Tick
  BY <1>14 DEF Tick, Older
<1>15. CASE SetBack
  BY <1>15 DEF SetBack
<1>16. CASE UNCHANGED vars
  BY <1>16 DEF vars
<1>17. CASE RunPoints \/ Edit
  BY <1>17 DEF RunPoints, Edit
<1> HIDE DEF TypeInv, Progress, StatusTruthful
<1> QED
  BY <1>1, <1>2, <1>3, <1>4, <1>5, <1>6, <1>7, <1>8, <1>9, <1>10, <1>11,
     <1>12, <1>13, <1>14, <1>15, <1>16, <1>17 DEF Next, Handle

LEMMA SettlingNext ==
    TypeInv /\ Exclusive /\ Progress /\ Settling /\ [Next]_vars => Settling'
<1> SUFFICES ASSUME TypeInv, Exclusive, Progress, Settling, [Next]_vars PROVE Settling'
  OBVIOUS
<1> USE GateAssumption DEF TypeInv, Exclusive, Progress, Settling, InGate, Swapped, Local, Locations, Configured, control, effects, history
<1>1. ASSUME NEW h \in Requests, Refuse(h) PROVE Settling'
  BY <1>1 DEF Refuse
<1>2. ASSUME NEW h \in Requests, Ask(h) PROVE Settling'
  BY <1>2 DEF Ask
<1>3. ASSUME NEW h \in Requests, Enter(h) PROVE Settling'
  BY <1>3 DEF Enter, Answer
<1>4. ASSUME NEW h \in Requests, RollbackFails(h) PROVE Settling'
  BY <1>4 DEF RollbackFails, Answer
<1>5. ASSUME NEW h \in Requests, SwapPointer(h) PROVE Settling'
  BY <1>5 DEF SwapPointer, Did
<1>6. ASSUME NEW h \in Requests, RecordFails(h) PROVE Settling'
  BY <1>6 DEF RecordFails, Answer, EventUnknown
<1>7. ASSUME NEW h \in Requests, Record(h) PROVE Settling'
  BY <1>7 DEF Record, Answer, Did, Finish
<1>8. ASSUME NEW h \in Requests, ApplyUpload(h) PROVE Settling'
  BY <1>8 DEF ApplyUpload, Did
<1>9. ASSUME NEW h \in Requests, UploadOk(h) PROVE Settling'
  BY <1>9 DEF UploadOk, Answer, Finish
<1>10. ASSUME NEW h \in Requests, UploadFails(h) PROVE Settling'
  BY <1>10 DEF UploadFails, Answer, Abandoned
<1>11. ASSUME NEW h \in Requests, Drop(h) PROVE Settling'
  BY <1>11 DEF Drop, Abandoned, EventUnknown
<1>12. CASE ApplyLate
  BY <1>12 DEF ApplyLate
<1>13. CASE Restart
  BY <1>13 DEF Restart, Abandoned
<1>14. CASE Tick
  BY <1>14 DEF Tick, Older
<1>15. CASE SetBack
  BY <1>15 DEF SetBack
<1>16. CASE UNCHANGED vars
  BY <1>16 DEF vars
<1>17. CASE RunPoints \/ Edit
  BY <1>17 DEF RunPoints, Edit
<1> HIDE DEF TypeInv, Exclusive, Progress, Settling
<1> QED
  BY <1>1, <1>2, <1>3, <1>4, <1>5, <1>6, <1>7, <1>8, <1>9, <1>10, <1>11,
     <1>12, <1>13, <1>14, <1>15, <1>16, <1>17 DEF Next, Handle

LEMMA SpacingNext ==
    TypeInv /\ Exclusive /\ Spacing /\ [Next]_vars => Spacing'
<1> SUFFICES ASSUME TypeInv, Exclusive, Spacing, [Next]_vars PROVE Spacing'
  OBVIOUS
<1> USE CapType, GateAssumption DEF TypeInv, Exclusive, Spacing, InGate, Locations, Never, Ages, control, effects, history
<1>1. ASSUME NEW h \in Requests, Refuse(h) PROVE Spacing'
  BY <1>1 DEF Refuse
<1>2. ASSUME NEW h \in Requests, Ask(h) PROVE Spacing'
  BY <1>2 DEF Ask
<1>3. ASSUME NEW h \in Requests, Enter(h) PROVE Spacing'
  <2>1. age' = age /\ since' = since
    BY <1>3 DEF Enter
  <2>2. holder' # NoOne => ~TooSoon
    BY <1>3 DEF Enter, Answer
  <2>3. ~TooSoon => since >= Cap
    BY NotTooSoon
  <2> QED BY <2>1, <2>2, <2>3
<1>4. ASSUME NEW h \in Requests, RollbackFails(h) PROVE Spacing'
  BY <1>4 DEF RollbackFails, Answer
<1>5. ASSUME NEW h \in Requests, SwapPointer(h) PROVE Spacing'
  BY <1>5 DEF SwapPointer, Did
<1>6. ASSUME NEW h \in Requests, RecordFails(h) PROVE Spacing'
  BY <1>6 DEF RecordFails, Answer, EventUnknown
<1>7. ASSUME NEW h \in Requests, Record(h) PROVE Spacing'
  BY <1>7 DEF Record, Answer, Did, Finish
<1>8. ASSUME NEW h \in Requests, ApplyUpload(h) PROVE Spacing'
  BY <1>8 DEF ApplyUpload, Did
<1>9. ASSUME NEW h \in Requests, UploadOk(h) PROVE Spacing'
  BY <1>9 DEF UploadOk, Answer, Finish
<1>10. ASSUME NEW h \in Requests, UploadFails(h) PROVE Spacing'
  BY <1>10 DEF UploadFails, Answer, Abandoned
<1>11. ASSUME NEW h \in Requests, Drop(h) PROVE Spacing'
  BY <1>11 DEF Drop, Abandoned, EventUnknown
<1>12. CASE ApplyLate
  BY <1>12 DEF ApplyLate
<1>13. CASE Restart
  BY <1>13 DEF Restart, Abandoned
<1>14. CASE Tick
  BY <1>14 DEF Tick, Older
<1>15. CASE SetBack
  BY <1>15 DEF SetBack
<1>16. CASE UNCHANGED vars
  BY <1>16 DEF vars
<1>17. CASE RunPoints \/ Edit
  BY <1>17 DEF RunPoints, Edit
<1> HIDE DEF TypeInv, Exclusive, Spacing
<1> QED
  BY <1>1, <1>2, <1>3, <1>4, <1>5, <1>6, <1>7, <1>8, <1>9, <1>10, <1>11,
     <1>12, <1>13, <1>14, <1>15, <1>16, <1>17 DEF Next, Handle

LEMMA InvInit == Init => Inv
<1> SUFFICES ASSUME Init PROVE Inv
  OBVIOUS
<1> USE CapType, GateAssumption DEF Init, NoAnswer, Never
<1>1. TypeInv
  BY DEF TypeInv, Locations, Targets, Ages, Swapped
<1>2. Exclusive /\ Progress
  BY DEF Exclusive, Progress, InGate, Swapped
<1>3. StatusTruthful
  BY DEF StatusTruthful, Truthful
<1>4. Settling /\ Spacing
  BY DEF Settling, Spacing, Swapped
<1> QED BY <1>1, <1>2, <1>3, <1>4 DEF Inv

LEMMA InvNext == Inv /\ [Next]_vars => Inv'
BY TypeInvNext, ExclusiveNext, ProgressNext, StatusTruthfulNext, SettlingNext,
   SpacingNext DEF Inv

LEMMA Invariance == Spec => []Inv
BY InvInit, InvNext, PTL DEF Spec

\* The status that rollback_backup answers with tells what the request has
\* changed, whatever fails, is dropped or restarted around it.
THEOREM StatusesTruthful == Spec => []StatusTruthful
<1>1. Inv => StatusTruthful
  BY DEF Inv
<1> QED BY <1>1, Invariance, PTL

\* Between a rollback that was answered with 200 and the next swap, AnkiWeb has
\* the collection of the backup that the pointer names, unless run_once has
\* written the pointer or another Anki client has changed AnkiWeb since.
THEOREM WebFollows == Spec => []WebFollowsPointer
<1>1. Inv => WebFollowsPointer
  BY DEF Inv, Settling, WebFollowsPointer
<1> QED BY <1>1, Invariance, PTL

\* Two answers 200 of rollback_backup are Limit seconds apart.
THEOREM OksAreSpaced == Spec => OksSpaced
<1> DEFINE Spaced == \A h \in Requests :
                        answer'[h] = 200 /\ answer[h] # 200 => since >= Cap
<1>1. Inv /\ [Next]_vars => [Spaced]_vars
  <2> SUFFICES ASSUME Inv, Next, NEW h \in Requests,
                      answer'[h] = 200, answer[h] # 200
               PROVE  since >= Cap
    OBVIOUS
  <2>0. TypeInv
    BY DEF Inv
  <2>1. pc[h] \in InGate
    <3> USE <2>0 DEF TypeInv, NoAnswer, InGate, control, effects, history
    <3>1. ASSUME NEW g \in Requests, Refuse(g) \/ Ask(g) \/ ApplyUpload(g) \/ Drop(g)
          PROVE  FALSE
      <4>1. CASE Refuse(g) \/ Ask(g)
        BY <4>1 DEF Refuse, Ask
      <4>2. CASE ApplyUpload(g)
        BY <4>2 DEF ApplyUpload
      <4>3. CASE Drop(g)
        BY <4>3 DEF Drop
      <4> QED BY <3>1, <4>1, <4>2, <4>3
    <3>2. ASSUME NEW g \in Requests, Enter(g) PROVE FALSE
      BY <3>2 DEF Enter, Answer
    <3>3. ASSUME NEW g \in Requests,
                 RollbackFails(g) \/ RecordFails(g) \/ SwapPointer(g) \/ UploadFails(g)
          PROVE  FALSE
      <4>1. ASSUME NEW status \in {400, 502}, Answer(g, status) PROVE FALSE
        BY <4>1 DEF Answer
      <4>2. CASE SwapPointer(g)
        BY <4>2 DEF SwapPointer
      <4>3. CASE RollbackFails(g) \/ RecordFails(g) \/ UploadFails(g)
        BY <4>1, <4>3 DEF RollbackFails, RecordFails, UploadFails
      <4> QED BY <3>3, <4>2, <4>3
    <3>4. ASSUME NEW g \in Requests, Record(g) PROVE pc[h] \in InGate
      BY <3>4 DEF Record, Finish, Answer
    <3>5. ASSUME NEW g \in Requests, UploadOk(g) PROVE pc[h] \in InGate
      BY <3>5 DEF UploadOk, Finish, Answer
    <3>6. ASSUME ApplyLate \/ RunPoints \/ Edit \/ Restart \/ Tick \/ SetBack
          PROVE  FALSE
      BY <3>6 DEF ApplyLate, RunPoints, Edit, Restart, Tick, SetBack
    <3> QED BY <3>1, <3>2, <3>3, <3>4, <3>5, <3>6 DEF Next, Handle
  <2>2. holder = h
    BY <2>1 DEF Inv, Exclusive
  <2> QED BY <2>2, GateAssumption DEF Inv, Spacing
<1> QED BY <1>1, Invariance, PTL DEF Spec, OksSpaced

-----------------------------------------------------------------------------
\* The rest of TypeOK.
RestInv ==
    /\ sync_config \in {"Some", "None"}
    /\ queue \in Seq(Requests)
    /\ pointer \in Backups \cup {Other}
    /\ web \in Backups \cup {Other}

\* A step of a handler that is past the gate, or of nobody at all.
Moves(h) ==
    /\ queue' = queue
    /\ pc[h] \in InGate
    /\ \E l \in InGate \cup {"idle"} :
          /\ pc' = [pc EXCEPT ![h] = l]
          /\ holder' = NoOne \/ (holder' = holder /\ l \in InGate)

\* What each step does to the queue, to the gate and to the locations.
LEMMA GateSteps ==
    ASSUME Next
    PROVE  \/ UNCHANGED <<queue, pc, holder>>
           \/ \E h \in Requests : Moves(h) \/ Ask(h) \/ Enter(h) \/ Drop(h)
           \/ Restart
<1> USE DEF InGate, control
<1>1. ASSUME NEW h \in Requests, Refuse(h) \/ ApplyUpload(h)
      PROVE  UNCHANGED <<queue, pc, holder>>
  BY <1>1 DEF Refuse, ApplyUpload
<1>2. ApplyLate \/ RunPoints \/ Edit \/ Tick \/ SetBack
        => UNCHANGED <<queue, pc, holder>>
  BY DEF ApplyLate, RunPoints, Edit, Tick, SetBack
<1>3. ASSUME NEW h \in Requests, RollbackFails(h) PROVE Moves(h)
  BY <1>3 DEF RollbackFails, Answer, Moves
<1>4. ASSUME NEW h \in Requests, SwapPointer(h) PROVE Moves(h)
  BY <1>4 DEF SwapPointer, Moves
<1>5. ASSUME NEW h \in Requests, RecordFails(h) PROVE Moves(h)
  BY <1>5 DEF RecordFails, Answer, Moves
<1>6. ASSUME NEW h \in Requests, Record(h) PROVE Moves(h)
  <2>1. pc[h] = "record" /\ queue' = queue
    BY <1>6, Zenon DEF Record
  <2>2. \/ Answer(h, 200) \/ Answer(h, 500)
        \/ pc' = [pc EXCEPT ![h] = "upload"] /\ holder' = holder
    BY <1>6 DEF Record, Finish
  <2> QED BY <2>1, <2>2 DEF Answer, Moves
<1>7. ASSUME NEW h \in Requests, UploadOk(h) PROVE Moves(h)
  BY <1>7 DEF UploadOk, Finish, Answer, Moves
<1>8. ASSUME NEW h \in Requests, UploadFails(h) PROVE Moves(h)
  BY <1>8 DEF UploadFails, Answer, Moves
<1> QED BY <1>1, <1>2, <1>3, <1>4, <1>5, <1>6, <1>7, <1>8, Zenon DEF Next, Handle

\* A waiter that leaves the queue leaves the others, in their order.
LEMMA LeaveQueue ==
    ASSUME NEW h \in Requests, queue \in Seq(Requests), Leave(h)
    PROVE  /\ queue' \in Seq(Requests)
           /\ pc[h] # "waiting" => queue' = queue
           /\ pc[h] = "waiting" =>
                 \E i \in DOMAIN queue :
                     /\ queue[i] = h /\ Len(queue') = Len(queue) - 1
                     /\ DOMAIN queue' = 1 .. Len(queue) - 1
                     /\ \A j \in DOMAIN queue' :
                           queue'[j] = IF j < i THEN queue[j] ELSE queue[j + 1]
<1>1. CASE pc[h] # "waiting"
  BY <1>1 DEF Leave
<1>2. CASE pc[h] = "waiting"
  <2>1. PICK i \in DOMAIN queue :
           /\ queue[i] = h
           /\ queue' = [j \in 1 .. Len(queue) - 1 |->
                           IF j < i THEN queue[j] ELSE queue[j + 1]]
    BY <1>2 DEF Leave
  <2> DEFINE n == Len(queue) - 1
  <2>2. DOMAIN queue = 1 .. Len(queue) /\ Len(queue) \in Nat
        /\ \A j \in 1 .. Len(queue) : queue[j] \in Requests
    OBVIOUS
  <2>3. n \in Nat /\ i \in 1 .. n + 1
    BY <2>1, <2>2
  <2>4. \A j \in 1 .. n : j \in DOMAIN queue /\ j + 1 \in DOMAIN queue
    BY <2>2, <2>3
  <2>5. queue' \in [1 .. n -> Requests]
    BY <2>1, <2>2, <2>4
  <2>6. DOMAIN queue' = 1 .. n
        /\ \A j \in DOMAIN queue' :
              queue'[j] = IF j < i THEN queue[j] ELSE queue[j + 1]
    BY <2>1
  <2> HIDE DEF n
  <2>7. queue' \in Seq(Requests) /\ Len(queue') = n
    BY <2>3, <2>5
  <2> QED BY <1>2, <2>1, <2>6, <2>7 DEF n
<1> QED BY <1>1, <1>2

\* Each step keeps the types that no other safety property depends on.
LEMMA RestNext == TypeInv /\ RestInv /\ [Next]_vars => RestInv'
<1> SUFFICES ASSUME TypeInv, RestInv, [Next]_vars PROVE RestInv'
  OBVIOUS
<1>1. sync_config' \in {"Some", "None"}
  BY ConfigFixed DEF RestInv
<1>2. queue' \in Seq(Requests)
  <2>1. CASE UNCHANGED <<queue, pc, holder>> \/ UNCHANGED vars
    BY <2>1 DEF RestInv, vars, control
  <2>2. ASSUME NEW h \in Requests, Moves(h) PROVE queue' \in Seq(Requests)
    BY <2>2 DEF RestInv, Moves
  <2>3. ASSUME NEW h \in Requests, Ask(h) PROVE queue' \in Seq(Requests)
    BY <2>3 DEF RestInv, Ask
  <2>4. ASSUME NEW h \in Requests, Enter(h) PROVE queue' \in Seq(Requests)
    <3>1. queue # <<>> /\ queue' = Tail(queue)
      BY <2>4 DEF Enter
    <3> QED BY <3>1 DEF RestInv
  <2>5. ASSUME NEW h \in Requests, Drop(h) PROVE queue' \in Seq(Requests)
    BY <2>5, LeaveQueue DEF RestInv, Drop
  <2>6. CASE Restart
    BY <2>6 DEF Restart
  <2> QED BY <2>1, <2>2, <2>3, <2>4, <2>5, <2>6, GateSteps
<1>3. pointer' \in Backups \cup {Other} /\ web' \in Backups \cup {Other}
  <2> USE DEF RestInv, effects
  <2>1. ASSUME NEW h \in Requests, SwapPointer(h)
        PROVE  pointer' \in Backups \cup {Other} /\ web' = web
    BY <2>1 DEF SwapPointer
  <2>2. ASSUME NEW h \in Requests, ApplyUpload(h)
        PROVE  pointer' = pointer /\ web' \in Backups \cup {Other}
    BY <2>2 DEF ApplyUpload, TypeInv, Swapped
  <2>3. CASE ApplyLate \/ RunPoints \/ Edit
    BY <2>3 DEF ApplyLate, RunPoints, Edit, TypeInv
  <2>4. ASSUME NEW h \in Requests,
               Refuse(h) \/ Ask(h) \/ Enter(h) \/ RollbackFails(h) \/ Drop(h)
        PROVE  UNCHANGED <<pointer, web>>
    BY <2>4, Zenon DEF Refuse, Ask, Enter, RollbackFails, Drop
  <2>5. ASSUME NEW h \in Requests,
               RecordFails(h) \/ Record(h) \/ UploadOk(h) \/ UploadFails(h)
        PROVE  UNCHANGED <<pointer, web>>
    BY <2>5, Zenon DEF RecordFails, Record, UploadOk, UploadFails
  <2>6. Restart \/ Tick \/ SetBack \/ UNCHANGED vars => UNCHANGED <<pointer, web>>
    BY Zenon DEF Restart, Tick, SetBack, vars
  <2> QED BY <2>1, <2>2, <2>3, <2>4, <2>5, <2>6 DEF Next, Handle
<1> QED BY <1>1, <1>2, <1>3 DEF RestInv

\* Each step keeps gate, queue and handlers in agreement.
LEMMA StrandedNext ==
    TypeInv /\ RestInv /\ NoneStranded /\ [Next]_vars => NoneStranded'
<1> SUFFICES ASSUME TypeInv, RestInv, NoneStranded, [Next]_vars
             PROVE  NoneStranded'
  OBVIOUS
<1>0. /\ pc \in [Requests -> Locations] /\ holder \in Requests \cup {NoOne}
      /\ NoOne \notin Requests /\ queue \in Seq(Requests)
      /\ DOMAIN queue = 1 .. Len(queue) /\ Len(queue) \in Nat
      /\ \A i \in DOMAIN queue : queue[i] \in Requests
  BY GateAssumption DEF TypeInv, RestInv
<1>1. CASE UNCHANGED <<queue, pc, holder>> \/ UNCHANGED vars
  BY <1>1 DEF NoneStranded, vars, control
<1>2. ASSUME NEW h \in Requests, Moves(h) PROVE NoneStranded'
  BY <1>0, <1>2 DEF NoneStranded, Moves, InGate, Locations
<1>3. ASSUME NEW h \in Requests, Ask(h) PROVE NoneStranded'
  <2>1. /\ pc[h] = "idle" /\ pc' = [pc EXCEPT ![h] = "waiting"]
        /\ queue' = Append(queue, h) /\ holder' = holder
    BY <1>3 DEF Ask
  <2>2. /\ DOMAIN queue' = 1 .. Len(queue) + 1
        /\ queue'[Len(queue) + 1] = h
        /\ \A i \in DOMAIN queue : queue'[i] = queue[i]
    BY <1>0, <2>1
  <2>3. \A i \in DOMAIN queue : queue[i] # h /\ i \in DOMAIN queue'
    BY <1>0, <2>1, <2>2 DEF NoneStranded
  <2>4. \A i \in DOMAIN queue' : i \in DOMAIN queue \/ i = Len(queue) + 1
    BY <1>0, <2>2
  <2>5. \A g \in Requests :
           pc'[g] = "waiting" => \E i \in DOMAIN queue' : queue'[i] = g
    BY <1>0, <2>1, <2>2, <2>3 DEF NoneStranded
  <2>6. \A i \in DOMAIN queue' : pc'[queue'[i]] = "waiting"
    BY <1>0, <2>1, <2>2, <2>3, <2>4 DEF NoneStranded
  <2>7. \A i, j \in DOMAIN queue' : queue'[i] = queue'[j] => i = j
    BY <1>0, <2>2, <2>3, <2>4 DEF NoneStranded
  <2>8. holder' # NoOne => pc'[holder'] \in {"rollback", "record", "upload"}
    BY <1>0, <2>1 DEF NoneStranded
  <2> QED BY <2>5, <2>6, <2>7, <2>8 DEF NoneStranded
<1>4. ASSUME NEW h \in Requests, Enter(h) PROVE NoneStranded'
  <2>1. /\ queue # <<>> /\ Head(queue) = h /\ queue' = Tail(queue)
    BY <1>4 DEF Enter
  <2>2. \E l \in {"idle", "rollback"} :
           /\ pc' = [pc EXCEPT ![h] = l]
           /\ holder' = IF l = "idle" THEN NoOne ELSE h
    BY <1>4 DEF Enter, Answer
  <2>3. PICK n \in Nat : Len(queue) = n + 1
    <3>1. Len(queue) # 0
      BY <1>0, <2>1
    <3>2. Len(queue) - 1 \in Nat /\ Len(queue) = (Len(queue) - 1) + 1
      BY <1>0, <3>1
    <3> QED BY <3>2
  <2>4. /\ DOMAIN queue' = 1 .. n /\ queue[1] = h
        /\ \A i \in 1 .. n : queue'[i] = queue[i + 1]
    BY <1>0, <2>1, <2>3
  <2>5. \A i \in 1 .. n : i + 1 \in DOMAIN queue /\ i + 1 # 1
    BY <1>0, <2>3
  <2>6. 1 \in DOMAIN queue
    BY <1>0, <2>3
  <2>7. \A i \in 1 .. n : queue'[i] # h
    <3>1. \A i \in DOMAIN queue : i # 1 => queue[i] # h
      BY <2>4, <2>6 DEF NoneStranded
    <3> QED BY <2>4, <2>5, <3>1
  <2>8. \A i \in DOMAIN queue : i = 1 \/ (i - 1 \in 1 .. n /\ (i - 1) + 1 = i)
    BY <1>0, <2>3
  <2>9. ASSUME NEW g \in Requests, pc'[g] = "waiting"
        PROVE  \E i \in DOMAIN queue' : queue'[i] = g
    <3>1. g # h /\ pc[g] = "waiting"
      BY <1>0, <2>2, <2>9
    <3>2. PICK i \in DOMAIN queue : queue[i] = g
      BY <3>1 DEF NoneStranded
    <3>3. i - 1 \in 1 .. n /\ (i - 1) + 1 = i
      BY <2>4, <2>8, <3>1, <3>2
    <3>4. queue'[i - 1] = queue[(i - 1) + 1]
      BY <2>4, <3>3
    <3> QED BY <2>4, <3>2, <3>3, <3>4
  <2>10. \A i \in DOMAIN queue' : pc'[queue'[i]] = "waiting"
    <3> SUFFICES ASSUME NEW i \in 1 .. n PROVE pc'[queue'[i]] = "waiting"
      BY <2>4
    <3>1. PICK k \in DOMAIN queue : queue'[i] = queue[k]
      BY <2>4, <2>5
    <3>2. queue[k] \in Requests /\ queue[k] # h
      BY <1>0, <2>7, <3>1
    <3>3. pc[queue[k]] = "waiting"
      BY DEF NoneStranded
    <3> QED BY <1>0, <2>2, <3>1, <3>2, <3>3
  <2>11. ASSUME NEW i \in DOMAIN queue', NEW j \in DOMAIN queue',
                queue'[i] = queue'[j]
         PROVE  i = j
    <3>1. queue[i + 1] = queue[j + 1] /\ i + 1 \in DOMAIN queue
          /\ j + 1 \in DOMAIN queue
      BY <2>4, <2>5, <2>11
    <3>2. i + 1 = j + 1
      BY <3>1 DEF NoneStranded
    <3> QED BY <2>4, <3>2
  <2>12. holder' # NoOne => pc'[holder'] \in {"rollback", "record", "upload"}
    BY <1>0, <2>2
  <2> QED BY <2>9, <2>10, <2>11, <2>12 DEF NoneStranded
<1>5. ASSUME NEW h \in Requests, Drop(h) PROVE NoneStranded'
  <2>1. /\ pc' = [pc EXCEPT ![h] = "idle"] /\ Leave(h)
        /\ holder' = IF holder = h THEN NoOne ELSE holder
    BY <1>5, Zenon DEF Drop
  <2>2. holder' # NoOne => pc'[holder'] \in {"rollback", "record", "upload"}
    BY <1>0, <2>1 DEF NoneStranded
  <2>3. CASE pc[h] # "waiting"
    <3>1. queue' = queue
      BY <1>0, <2>1, <2>3, LeaveQueue
    <3> QED BY <1>0, <2>1, <2>2, <2>3, <3>1 DEF NoneStranded
  <2>4. CASE pc[h] = "waiting"
    <3> DEFINE n == Len(queue) - 1
    <3>1. PICK i \in DOMAIN queue :
             /\ queue[i] = h
             /\ DOMAIN queue' = 1 .. n
             /\ \A j \in DOMAIN queue' :
                   queue'[j] = IF j < i THEN queue[j] ELSE queue[j + 1]
      BY <1>0, <2>1, <2>4, LeaveQueue
    <3>2. PICK At : At = [j \in 1 .. n |-> IF j < i THEN j ELSE j + 1]
      OBVIOUS
    <3>3. \A j \in 1 .. n : /\ At[j] \in DOMAIN queue /\ At[j] # i
                            /\ queue'[j] = queue[At[j]]
      <4> SUFFICES ASSUME NEW j \in 1 .. n
                   PROVE  /\ At[j] \in DOMAIN queue /\ At[j] # i
                          /\ queue'[j] = queue[At[j]]
        OBVIOUS
      <4>1. At[j] = IF j < i THEN j ELSE j + 1
        BY <3>2
      <4>2. queue'[j] = IF j < i THEN queue[j] ELSE queue[j + 1]
        BY <3>1
      <4>3. j \in DOMAIN queue /\ j + 1 \in DOMAIN queue /\ i \in Int /\ j \in Int
        BY <1>0
      <4> HIDE DEF n
      <4>4. CASE j < i
        BY <4>1, <4>2, <4>3, <4>4
      <4>5. CASE ~(j < i)
        BY <4>1, <4>2, <4>3, <4>5
      <4> QED BY <4>4, <4>5
    <3>4. \A j, k \in 1 .. n : At[j] = At[k] => j = k
      BY <1>0, <3>1, <3>2
    <3>5. \A k \in DOMAIN queue : k # i => \E j \in 1 .. n : At[j] = k
      <4> SUFFICES ASSUME NEW k \in DOMAIN queue, k # i
                   PROVE  \E j \in 1 .. n : At[j] = k
        OBVIOUS
      <4>1. CASE k < i
        BY <1>0, <3>1, <3>2, <4>1
      <4>2. CASE k > i
        <5>1. k - 1 \in 1 .. n /\ At[k - 1] = k
          BY <1>0, <3>1, <3>2, <4>2
        <5> QED BY <5>1
      <4> QED BY <1>0, <3>1, <4>1, <4>2
    <3> HIDE DEF n
    <3>6. \A j \in 1 .. n : queue'[j] \in Requests /\ queue'[j] # h
                            /\ pc[queue'[j]] = "waiting"
      BY <1>0, <3>1, <3>3 DEF NoneStranded
    <3>7. \A g \in Requests : g # h => pc'[g] = pc[g]
      BY <1>0, <2>1
    <3>8. pc'[h] = "idle"
      BY <1>0, <2>1
    <3>9. ASSUME NEW g \in Requests, pc'[g] = "waiting"
          PROVE  \E j \in DOMAIN queue' : queue'[j] = g
      <4>1. g # h /\ pc[g] = "waiting"
        BY <3>7, <3>8, <3>9
      <4>2. PICK k \in DOMAIN queue : queue[k] = g
        BY <4>1 DEF NoneStranded
      <4>3. PICK j \in 1 .. n : At[j] = k
        BY <3>1, <3>5, <4>1, <4>2
      <4> QED BY <3>1, <3>3, <4>2, <4>3
    <3>10. \A j \in DOMAIN queue' : pc'[queue'[j]] = "waiting"
      BY <3>1, <3>6, <3>7
    <3>11. \A j, k \in DOMAIN queue' : queue'[j] = queue'[k] => j = k
      BY <3>1, <3>3, <3>4 DEF NoneStranded
    <3> QED BY <2>2, <3>9, <3>10, <3>11 DEF NoneStranded
  <2> QED BY <2>3, <2>4
<1>6. CASE Restart
  <2>1. pc' = [h \in Requests |-> "idle"] /\ queue' = <<>> /\ holder' = NoOne
    BY <1>6 DEF Restart
  <2>2. DOMAIN queue' = {}
    BY <2>1
  <2> QED BY <2>1, <2>2 DEF NoneStranded
<1> HIDE DEF NoneStranded
<1> QED BY <1>1, <1>2, <1>3, <1>4, <1>5, <1>6, GateSteps

\* Both hold in every state.
LEMMA GateInvariance == Spec => [](RestInv /\ NoneStranded)
<1>1. Init => RestInv /\ NoneStranded
  <2> SUFFICES ASSUME Init PROVE RestInv /\ NoneStranded
    OBVIOUS
  <2>1. DOMAIN queue = {} /\ queue \in Seq(Requests)
    BY DEF Init
  <2> QED BY <2>1 DEF Init, RestInv, NoneStranded
<1>2. TypeInv /\ RestInv /\ NoneStranded /\ [Next]_vars
        => (RestInv /\ NoneStranded)'
  BY RestNext, StrandedNext
<1>3. Inv => TypeInv
  BY DEF Inv
<1> QED BY <1>1, <1>2, <1>3, Invariance, PTL DEF Spec

\* Every variable of the handler keeps its type, the queue of the gate included.
THEOREM GateTypes == Spec => []TypeOK
<1>1. Inv /\ RestInv => TypeOK
  BY DEF Inv, TypeInv, RestInv, TypeOK
<1> QED BY <1>1, Invariance, GateInvariance, PTL

\* rollback_gate is never left locked by a handler that has returned, was dropped
\* or died with the daemon, and none of its waiters is lost or served twice.
THEOREM NobodyStranded == Spec => []NoneStranded
BY GateInvariance, PTL
=============================================================================
