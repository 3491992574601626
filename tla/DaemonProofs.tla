------------------------------ MODULE DaemonProofs ------------------------------
(***************************************************************************)
(* The daemon over many hours, for any collections, any retention period   *)
(* and any number of rollbacks and faults: pruning removes what has        *)
(* expired, and the two writers of the pointer leave it where it should be.*)
(***************************************************************************)
EXTENDS Daemon, FiniteSetTheorems, SequenceTheorems, TLAPS

\* TypeOK, and which of the two have a collection in hand.
TypeInv ==
    /\ TypeOK
    /\ pc \in {"compare", "create", "point"} => payload \in Collections
    /\ req # "idle" => target \in Collections

\* The rows are in the order in which they were made.
OldestFirst ==
    \A i, j \in DOMAIN rows : i <= j => rows[i].age >= rows[j].age

\* The collection of the newest backup.
Newest == rows[Len(rows)].content

\* Between the insert of a row and the write of the pointer the row is the newest.
RowIsNewest == pc = "point" => rows # <<>> /\ Newest = payload

\* Who has written the pointer last: the rollback that is on its way to AnkiWeb,
\* or the run that made the newest backup.
LastWriter ==
    ~adrift /\ pc # "point" /\ rows # <<>> =>
        IF req \in {"read", "push"} THEN pointer \in {target, Newest}
                                    ELSE Newest = web => pointer = web

-----------------------------------------------------------------------------
\* The fields of a backup.
LEMMA BackupParts ==
    ASSUME NEW b \in Backups
    PROVE  /\ b.content \in Collections
           /\ b.age \in 0 .. Retention + 1 /\ b.age \in Nat
BY DaemonAssumption DEF Backups

\* A set of positions that has every position before one of its own is 1 .. n.
LEMMA Prefix ==
    ASSUME NEW L \in Nat, NEW S \in SUBSET (1 .. L),
           \A i, j \in 1 .. L : i <= j /\ j \in S => i \in S
    PROVE  /\ Cardinality(S) \in 0 .. L
           /\ \A i \in 1 .. L : i \in S <=> i <= Cardinality(S)
<1> DEFINE T == {i \in 1 .. L + 1 : i \notin S}
<1>1. T \subseteq Nat /\ L + 1 \in T
  OBVIOUS
<1>2. PICK m \in T : \A k \in T : ~(<<k, m>> \in OpToRel(<, Nat))
  <2> HIDE DEF T
  <2> QED BY <1>1, WFMin, NatLessThanWellFounded, Zenon
<1>3. \A k \in T : ~(k < m)
  BY <1>1, <1>2 DEF OpToRel
<1>4. m \in 1 .. L + 1 /\ m \notin S
  OBVIOUS
<1>5. \A i \in 1 .. L : i \in S <=> i <= m - 1
  <2> SUFFICES ASSUME NEW i \in 1 .. L PROVE i \in S <=> i <= m - 1
    OBVIOUS
  <2>1. CASE i < m
    BY <1>3, <1>4, <2>1
  <2>2. CASE ~(i < m)
    <3>1. m \in 1 .. L /\ m <= i
      BY <1>4, <2>2
    <3> QED BY <1>4, <2>2, <3>1
  <2> QED BY <2>1, <2>2
<1>6. S = 1 .. m - 1
  <2> HIDE DEF T
  <2>1. \A i \in S : i \in 1 .. L
    OBVIOUS
  <2>2. \A i \in S : i \in 1 .. m - 1
    BY <1>4, <1>5, <2>1
  <2>3. \A i \in 1 .. m - 1 : i \in 1 .. L /\ i <= m - 1
    BY <1>4
  <2>4. \A i \in 1 .. m - 1 : i \in S
    BY <1>5, <2>3
  <2> QED BY <2>2, <2>4
<1>7. Cardinality(S) = m - 1
  BY <1>4, <1>6, FS_Interval
<1> QED BY <1>4, <1>5, <1>7

\* The rows that have expired are the first ExpiredCount ones.
LEMMA ExpiredFirst ==
    ASSUME TypeOK, OldestFirst
    PROVE  /\ ExpiredCount \in 0 .. Len(rows)
           /\ \A i \in DOMAIN rows : Expired(rows[i]) <=> i <= ExpiredCount
<1> DEFINE L == Len(rows)
           S == {i \in DOMAIN rows : Expired(rows[i])}
<1>1. L \in Nat /\ DOMAIN rows = 1 .. L /\ \A i \in 1 .. L : rows[i] \in Backups
  BY DEF TypeOK
<1>2. S \in SUBSET (1 .. L)
  BY <1>1
<1>3. ASSUME NEW i \in 1 .. L, NEW j \in 1 .. L, i <= j, j \in S PROVE i \in S
  <2>1. rows[i].age >= rows[j].age
    BY <1>1, <1>3 DEF OldestFirst
  <2>2. rows[i].age \in Nat /\ rows[j].age \in Nat
    BY <1>1, BackupParts
  <2> QED BY <1>1, <1>3, <2>1, <2>2, DaemonAssumption DEF Expired
<1> HIDE DEF L, S
<1>4. /\ Cardinality(S) \in 0 .. L
      /\ \A i \in 1 .. L : i \in S <=> i <= Cardinality(S)
  BY <1>1, <1>2, <1>3, Prefix
<1>5. ExpiredCount = Cardinality(S)
  BY DEF S, ExpiredCount
<1> QED BY <1>1, <1>4, <1>5 DEF L, S

\* What is left after pruning.
LEMMA PruneRows ==
    ASSUME TypeOK, OldestFirst, Prune
    PROVE  /\ rows' \in Seq(Backups)
           /\ Len(rows') = Len(rows) - ExpiredCount
           /\ ExpiredCount \in 0 .. Len(rows)
           /\ \A i \in DOMAIN rows' :
                 /\ i + ExpiredCount \in DOMAIN rows
                 /\ rows'[i] = rows[i + ExpiredCount]
<1>1. PICK n : n = ExpiredCount
  OBVIOUS
<1>2. n \in 0 .. Len(rows) /\ rows' = SubSeq(rows, n + 1, Len(rows))
  BY <1>1, ExpiredFirst DEF Prune
<1>3. rows \in Seq(Backups) /\ Len(rows) \in Nat
  BY DEF TypeOK
<1>4. rows' \in Seq(Backups) /\ Len(rows') = Len(rows) - n
  BY <1>2, <1>3, SubSeqProperties
<1>5. ASSUME NEW i \in DOMAIN rows'
      PROVE  i + n \in DOMAIN rows /\ rows'[i] = rows[i + n]
  <2>1. i \in 1 .. Len(rows) - n
    BY <1>4
  <2>2. rows'[i] = rows[n + 1 + i - 1]
    BY <1>2, <1>3, <2>1, SubSeqProperties
  <2> QED BY <1>2, <1>3, <2>1, <2>2
<1> QED BY <1>1, <1>2, <1>4, <1>5

\* What the top of the hour does to the rows.
LEMMA WakeRows ==
    ASSUME TypeOK, Wake
    PROVE  /\ rows' \in Seq(Backups)
           /\ Len(rows') = Len(rows) /\ DOMAIN rows' = DOMAIN rows
           /\ \A i \in DOMAIN rows :
                 /\ rows'[i].content = rows[i].content
                 /\ rows'[i].age = IF rows[i].age <= Retention
                                   THEN rows[i].age + 1 ELSE rows[i].age
<1> DEFINE L == Len(rows)
<1>1. L \in Nat /\ DOMAIN rows = 1 .. L /\ \A i \in 1 .. L : rows[i] \in Backups
  BY DEF TypeOK
<1>2. rows' = [i \in DOMAIN rows |-> Older(rows[i])]
  BY DEF Wake
<1>3. ASSUME NEW b \in Backups
      PROVE  /\ Older(b) \in Backups
             /\ Older(b).content = b.content
             /\ Older(b).age = IF b.age <= Retention THEN b.age + 1 ELSE b.age
  <2>1. /\ Older(b).content = b.content
        /\ Older(b).age = IF b.age <= Retention THEN b.age + 1 ELSE b.age
        /\ Older(b) = [content |-> b.content, age |-> Older(b).age]
    BY DEF Older, Backups
  <2>2. Older(b).age \in 0 .. Retention + 1
    BY <2>1, BackupParts, DaemonAssumption
  <2> QED BY <2>1, <2>2, BackupParts DEF Backups
<1> HIDE DEF L
<1>4. \A i \in 1 .. L : rows'[i] = Older(rows[i]) /\ rows'[i] \in Backups
  BY <1>1, <1>2, <1>3
<1>5. rows' \in [1 .. L -> Backups]
  BY <1>1, <1>2, <1>4
<1>6. rows' \in Seq(Backups) /\ Len(rows') = L /\ DOMAIN rows' = 1 .. L
  BY <1>1, <1>5
<1> QED BY <1>1, <1>3, <1>4, <1>6 DEF L

\* A new backup is the newest.
LEMMA CreateRows ==
    ASSUME TypeInv, Create
    PROVE  /\ rows' \in Seq(Backups)
           /\ Len(rows') = Len(rows) + 1
           /\ rows'[Len(rows')].content = payload
           /\ rows'[Len(rows')].age = 0
           /\ \A i \in DOMAIN rows : rows'[i] = rows[i]
<1>1. PICK b : b = [content |-> payload, age |-> 0]
  OBVIOUS
<1>2. b \in Backups /\ b.content = payload /\ b.age = 0
  BY <1>1, DaemonAssumption DEF TypeInv, Create, Backups
<1>3. rows' = Append(rows, b) /\ rows \in Seq(Backups)
  BY <1>1 DEF TypeInv, TypeOK, Create
<1> QED BY <1>2, <1>3

\* The steps that change the rows, and those that do not.
LEMMA RowSteps ==
    ASSUME [Next]_vars
    PROVE  rows' = rows \/ Wake \/ Create \/ Prune
<1>1. SyncOk \/ SyncPage \/ SyncFails \/ RunFails \/ PruneFails => rows' = rows
  BY DEF SyncOk, SyncPage, SyncFails, RunFails, PruneFails
<1>2. Compare \/ StatsError \/ Point => rows' = rows
  BY DEF Compare, StatsError, Point
<1>3. Ask \/ Handled \/ RollbackFails => rows' = rows
  BY DEF Ask, Handled, Swap, Read, ReadError, Push, RollbackFails
<1>4. ApplyLate \/ Edit \/ Restart => rows' = rows
  BY DEF ApplyLate, Edit, Restart
<1>5. UNCHANGED vars => rows' = rows
  BY DEF vars
<1> QED BY <1>1, <1>2, <1>3, <1>4, <1>5, Zenon DEF Next, Scheduled

\* Each step keeps the types.
LEMMA TypeNext == TypeInv /\ OldestFirst /\ [Next]_vars => TypeInv'
<1> SUFFICES ASSUME TypeInv, OldestFirst, [Next]_vars PROVE TypeInv'
  OBVIOUS
<1>0. rows' \in Seq(Backups)
  <2>1. rows \in Seq(Backups) /\ TypeOK
    BY DEF TypeInv, TypeOK
  <2> QED BY <2>1, RowSteps, WakeRows, CreateRows, PruneRows
<1>1. \A i \in DOMAIN rows : rows[i].content \in Collections
  BY BackupParts DEF TypeInv, TypeOK
<1>2. TypeOK /\ Prune => ExpiredCount \in Nat
  BY ExpiredFirst DEF TypeOK
<1> USE <1>0, DaemonAssumption
    DEF TypeInv, TypeOK, scheduler, request, ankiweb, Fault, Return
<1>3. CASE Wake \/ SyncOk \/ SyncPage \/ SyncFails
  BY <1>3 DEF Wake, SyncOk, SyncPage, SyncFails
<1>4. CASE Compare \/ StatsError \/ Create \/ Point
  BY <1>4 DEF Compare, StatsError, Create, Point
<1>5. CASE RunFails
  BY <1>5 DEF RunFails
<1>6. CASE Prune
  <2>1. place' \in Nat
    BY <1>2, <1>6 DEF Prune
  <2>2. pc' = "sleep"
        /\ UNCHANGED <<payload, pointer, web, late, req, target, rollbacks, faults,
                       adrift>>
    BY <1>6 DEF Prune
  <2> QED BY <2>1, <2>2
<1>7. CASE PruneFails
  BY <1>7 DEF PruneFails
<1>8. CASE Ask
  <2>1. DOMAIN rows \subseteq Nat
    OBVIOUS
  <2> QED BY <1>1, <1>8, <2>1 DEF Ask
<1>9. CASE Handled
  <2>1. CASE Swap \/ Read
    BY <2>1 DEF Swap, Read
  <2>2. CASE ReadError
    <3>1. adrift' \in BOOLEAN
      BY <2>2, Zenon DEF ReadError
    <3>2. /\ req' = "idle" /\ target' = Nothing /\ place' = 0
          /\ UNCHANGED <<pc, payload, pointer, web, late, rollbacks, faults>>
      BY <2>2 DEF ReadError
    <3> QED BY <3>1, <3>2
  <2>3. CASE Push
    BY <2>3 DEF Push
  <2> QED BY <1>9, <2>1, <2>2, <2>3 DEF Handled
<1>10. Abandoned \in [Collections -> Nat]
  BY DEF Abandoned
<1>11. CASE RollbackFails
  BY <1>10, <1>11 DEF RollbackFails
<1>12. CASE ApplyLate
  <2>1. PICK c \in Collections :
           /\ late[c] > 0 /\ late' = [late EXCEPT ![c] = @ - 1] /\ web' = c
           /\ adrift' = IF req \in {"read", "push"} THEN adrift ELSE pointer # c
    BY <1>12 DEF ApplyLate
  <2>2. late' \in [Collections -> Nat]
    <3>1. late[c] - 1 \in Nat
      BY <2>1
    <3> QED BY <2>1, <3>1
  <2>3. adrift' \in BOOLEAN
    BY <2>1, Zenon
  <2> QED BY <1>12, <2>1, <2>2, <2>3 DEF ApplyLate
<1>13. CASE Edit
  BY <1>13 DEF Edit
<1>14. CASE Restart
  BY <1>10, <1>14 DEF Restart
<1>15. CASE UNCHANGED vars
  BY <1>15 DEF vars
<1> HIDE DEF TypeInv
<1> QED BY <1>3, <1>4, <1>5, <1>6, <1>7, <1>8, <1>9, <1>11, <1>12, <1>13, <1>14,
           <1>15
        DEF Next, Scheduled

\* Each step keeps the order: all rows grow older together, a new one is youngest.
LEMMA OldestNext == TypeInv /\ OldestFirst /\ [Next]_vars => OldestFirst'
<1> SUFFICES ASSUME TypeInv, OldestFirst, [Next]_vars PROVE OldestFirst'
  OBVIOUS
<1>0. TypeOK /\ Len(rows) \in Nat /\ DOMAIN rows = 1 .. Len(rows)
      /\ \A i \in DOMAIN rows : rows[i].age \in Nat
  BY BackupParts DEF TypeInv, TypeOK
<1>1. CASE rows' = rows
  BY <1>1 DEF OldestFirst
<1>2. CASE Wake
  BY <1>0, <1>2, WakeRows, DaemonAssumption DEF OldestFirst
<1>3. CASE Create
  <2>1. /\ rows' \in Seq(Backups) /\ Len(rows') = Len(rows) + 1
        /\ rows'[Len(rows) + 1].age = 0
        /\ \A i \in DOMAIN rows : rows'[i] = rows[i]
    BY <1>3, CreateRows
  <2>2. DOMAIN rows' = 1 .. Len(rows) + 1
    BY <2>1
  <2> SUFFICES ASSUME NEW i \in DOMAIN rows', NEW j \in DOMAIN rows', i <= j
               PROVE  rows'[i].age >= rows'[j].age
    BY DEF OldestFirst
  <2>3. CASE j = Len(rows) + 1
    <3>1. i = Len(rows) + 1 \/ i \in DOMAIN rows
      BY <1>0, <2>2
    <3> QED BY <1>0, <2>1, <2>3, <3>1
  <2>4. CASE j # Len(rows) + 1
    <3>1. i \in DOMAIN rows /\ j \in DOMAIN rows
      BY <1>0, <2>2, <2>4
    <3> QED BY <2>1, <3>1 DEF OldestFirst
  <2> QED BY <2>3, <2>4
<1>4. CASE Prune
  <2>1. PICK n : n = ExpiredCount
    OBVIOUS
  <2>2. /\ n \in 0 .. Len(rows) /\ rows' \in Seq(Backups)
        /\ \A i \in DOMAIN rows' :
              i + n \in DOMAIN rows /\ rows'[i] = rows[i + n]
    BY <1>0, <1>4, <2>1, PruneRows
  <2>3. \A i \in DOMAIN rows' : i \in Int
    BY <2>2
  <2>4. \A i, j \in DOMAIN rows' : i <= j => i + n <= j + n
    BY <2>2, <2>3
  <2> QED BY <2>2, <2>4 DEF OldestFirst
<1> QED BY <1>1, <1>2, <1>3, <1>4, RowSteps

\* Only a new backup changes which one is the newest: time does not, and pruning
\* takes the newest only with all the others.
LEMMA NewestStays ==
    ASSUME TypeInv, OldestFirst, [Next]_vars, ~Create, rows' # <<>>
    PROVE  rows # <<>> /\ Newest' = Newest
<1>0. TypeOK /\ rows \in Seq(Backups) /\ Len(rows) \in Nat
      /\ DOMAIN rows = 1 .. Len(rows)
  BY DEF TypeInv, TypeOK
<1>1. CASE rows' = rows
  BY <1>1 DEF Newest
<1>2. CASE Wake
  <2>1. /\ rows' \in Seq(Backups) /\ Len(rows') = Len(rows)
        /\ \A i \in DOMAIN rows : rows'[i].content = rows[i].content
    BY <1>0, <1>2, WakeRows
  <2>2. Len(rows') # 0
    BY <2>1
  <2>3. Len(rows) \in DOMAIN rows /\ rows # <<>>
    BY <1>0, <2>1, <2>2
  <2> QED BY <2>1, <2>3 DEF Newest
<1>3. CASE Prune
  <2>1. PICK n : n = ExpiredCount
    OBVIOUS
  <2>2. /\ n \in 0 .. Len(rows) /\ rows' \in Seq(Backups)
        /\ Len(rows') = Len(rows) - n
        /\ \A i \in DOMAIN rows' : rows'[i] = rows[i + n]
    BY <1>0, <1>3, <2>1, PruneRows
  <2>3. Len(rows') # 0 /\ Len(rows') \in Nat /\ DOMAIN rows' = 1 .. Len(rows')
    BY <2>2
  <2>4. PICK a, b : a = Len(rows) /\ b = Len(rows')
    OBVIOUS
  <2>5. a \in Nat /\ b \in Nat /\ b # 0 /\ b = a - n /\ n \in 0 .. a
    BY <1>0, <2>2, <2>3, <2>4, Zenon
  <2>6. b \in 1 .. b /\ b + n = a /\ a # 0
    BY <2>5
  <2>7. rows # <<>>
    <3>1. rows = <<>> => Len(rows) = 0
      OBVIOUS
    <3> QED BY <2>4, <2>6, <3>1, Zenon
  <2>8. b \in DOMAIN rows'
    BY <2>3, <2>4, <2>6, Zenon
  <2>9. rows'[b] = rows[b + n]
    BY <2>2, <2>8, Zenon
  <2> QED BY <2>4, <2>6, <2>7, <2>9, Zenon DEF Newest
<1> QED BY <1>1, <1>2, <1>3, RowSteps

\* After Create the new backup is the newest.
LEMMA NewestCreated ==
    ASSUME TypeInv, Create
    PROVE  rows' # <<>> /\ Newest' = payload
<1>1. /\ rows' \in Seq(Backups) /\ Len(rows') = Len(rows) + 1
      /\ rows'[Len(rows')].content = payload
  BY CreateRows
<1>2. Len(rows) \in Nat
  BY DEF TypeInv, TypeOK
<1> QED BY <1>1, <1>2 DEF Newest

\* Nobody but run_once itself adds or removes rows between its row and its pointer.
LEMMA RowNext == TypeInv /\ OldestFirst /\ RowIsNewest /\ [Next]_vars => RowIsNewest'
<1> SUFFICES ASSUME TypeInv, OldestFirst, RowIsNewest, [Next]_vars, pc' = "point"
             PROVE  (rows # <<>>)' /\ Newest' = payload'
  BY DEF RowIsNewest
<1>1. CASE Create
  <2>1. payload' = payload
    BY <1>1 DEF Create
  <2> QED BY <1>1, <2>1, NewestCreated
<1>2. CASE ~Create
  <2>1. pc = "point" /\ payload' = payload /\ rows' = rows
    <3>1. CASE Wake \/ SyncOk \/ SyncPage \/ SyncFails \/ RunFails
      BY <3>1 DEF Wake, SyncOk, SyncPage, SyncFails, RunFails
    <3>2. CASE Compare \/ StatsError \/ Point \/ Prune \/ PruneFails \/ Restart
      BY <3>2 DEF Compare, StatsError, Point, Prune, PruneFails, Restart
    <3>3. CASE Ask \/ Handled \/ RollbackFails
      BY <3>3
      DEF Ask, Handled, Swap, Read, ReadError, Push, RollbackFails, scheduler
    <3>4. CASE ApplyLate \/ Edit \/ UNCHANGED vars
      BY <3>4 DEF ApplyLate, Edit, vars, scheduler
    <3> QED BY <1>2, <3>1, <3>2, <3>3, <3>4 DEF Next, Scheduled
  <2> QED BY <2>1 DEF RowIsNewest, Newest
<1> QED BY <1>1, <1>2

\* The steps between which the pointer, the request, AnkiWeb and the history may
\* change; every other one leaves all of them and is not at the pointer.
Others == pc # "point" /\ ~Create /\ UNCHANGED <<pointer, web, req, target, adrift>>

LEMMA WriterSteps ==
    ASSUME Next
    PROVE  \/ Point \/ RunFails \/ Ask \/ Swap \/ Read \/ ReadError \/ Push
           \/ RollbackFails \/ ApplyLate \/ Edit \/ Restart \/ pc' = "point"
           \/ Others
<1> USE DEF request, ankiweb
<1>1. Wake \/ SyncOk \/ SyncPage \/ SyncFails \/ Compare =>
         /\ pc # "point" /\ pc # "create"
         /\ UNCHANGED <<pointer, web, req, target, adrift>>
  BY DEF Wake, SyncOk, SyncPage, SyncFails, Compare
<1>2. Prune \/ PruneFails =>
         /\ pc # "point" /\ pc # "create"
         /\ UNCHANGED <<pointer, web, req, target, adrift>>
  BY DEF Prune, PruneFails
<1>3. StatsError =>
         /\ pc # "point" /\ pc' # "point"
         /\ UNCHANGED <<pointer, web, req, target, adrift>>
  BY DEF StatsError
<1>4. Create => pc' = "point" /\ pc = "create"
  BY DEF Create
<1> QED BY <1>1, <1>2, <1>3, <1>4, Zenon DEF Next, Scheduled, Handled, Others

\* Each step of the scheduler, the request, AnkiWeb's clients and the faults keeps
\* track of the last writer.
LEMMA WriterNext ==
    TypeInv /\ OldestFirst /\ RowIsNewest /\ LastWriter /\ [Next]_vars => LastWriter'
<1> SUFFICES ASSUME TypeInv, OldestFirst, RowIsNewest, LastWriter, [Next]_vars,
                    ~adrift', pc' # "point", rows' # <<>>
             PROVE  IF req' \in {"read", "push"} THEN pointer' \in {target', Newest'}
                                     ELSE Newest' = web' => pointer' = web'
  BY DEF LastWriter
<1>0. ~Create /\ rows # <<>> /\ Newest' = Newest
  <2>1. ~Create
    BY DEF Create
  <2> QED BY <2>1, NewestStays
<1> USE <1>0 DEF LastWriter, request, ankiweb, Return
<1>1. CASE Point
  <2>1. pointer' = Newest /\ UNCHANGED <<web, request>>
    BY <1>1 DEF Point, RowIsNewest
  <2> QED BY <2>1
<1>2. CASE RunFails
  BY <1>2 DEF RunFails
<1>3. CASE Ask
  BY <1>3 DEF Ask, scheduler
<1>4. CASE Swap
  BY <1>4 DEF Swap
<1>5. CASE Read
  BY <1>5 DEF Read, scheduler
<1>6. CASE Push
  BY <1>6 DEF Push, scheduler
<1>7. CASE ReadError \/ RollbackFails
  BY <1>7 DEF ReadError, RollbackFails, scheduler
<1>8. CASE Edit
  <2>1. Newest \in Stored
    <3>1. Len(rows) \in DOMAIN rows
      BY DEF TypeInv, TypeOK
    <3> QED BY <3>1 DEF Stored, Newest
  <2>2. web' # Newest /\ UNCHANGED <<pc, pointer, req, target, adrift>>
    BY <1>8, <2>1 DEF Edit, scheduler
  <2> QED BY <2>2
<1>9. CASE Restart
  BY <1>9 DEF Restart
<1>10. CASE Others
  BY <1>10 DEF Others
<1>11. CASE UNCHANGED vars
  BY <1>11 DEF vars, scheduler
<1>12. CASE ApplyLate
  <2>1. PICK c \in Collections :
           /\ web' = c
           /\ adrift' = IF req \in {"read", "push"} THEN adrift ELSE pointer # c
    BY <1>12 DEF ApplyLate
  <2>2. UNCHANGED <<pc, pointer, req, target>>
    BY <1>12 DEF ApplyLate, scheduler
  <2> QED BY <2>1, <2>2
<1> QED BY <1>1, <1>2, <1>3, <1>4, <1>5, <1>6, <1>7, <1>8, <1>9, <1>10, <1>11,
           <1>12, WriterSteps

-----------------------------------------------------------------------------
\* The inductive invariant.
Inv == TypeInv /\ OldestFirst /\ RowIsNewest /\ LastWriter

\* It holds before the first hour.
LEMMA InvInit == Init => Inv
<1> SUFFICES ASSUME Init PROVE Inv
  OBVIOUS
<1>1. rows = <<>> /\ rows \in Seq(Backups) /\ DOMAIN rows = {}
  BY DEF Init
<1>2. TypeInv
  <2>1. rollbacks \in 0 .. MaxRollbacks /\ faults \in 0 .. MaxFaults
    BY DaemonAssumption DEF Init
  <2>2. adrift \in BOOLEAN
    BY Zenon DEF Init
  <2>3. /\ pc = "sleep" /\ req = "idle" /\ web \in Collections
        /\ payload = Nothing /\ pointer = Nothing /\ target = Nothing
    BY DEF Init
  <2>4. place \in Nat /\ late \in [Collections -> Nat]
    BY DEF Init
  <2>5. TypeOK
    BY <1>1, <2>1, <2>2, <2>3, <2>4, Zenon DEF TypeOK
  <2> QED BY <2>3, <2>5 DEF TypeInv
<1> QED BY <1>1, <1>2 DEF Init, Inv, OldestFirst, RowIsNewest, LastWriter

\* And ever after.
LEMMA Invariance == Spec => []Inv
<1>1. Inv /\ [Next]_vars => Inv'
  BY TypeNext, OldestNext, RowNext, WriterNext DEF Inv
<1> QED BY <1>1, InvInit, PTL DEF Spec

\* Every variable keeps its type, whatever fails or is restarted; in particular
\* run_once never stores a backup of nothing.
THEOREM DaemonTypes == Spec => []TypeOK
<1>1. Inv => TypeOK
  BY DEF Inv, TypeInv
<1> QED BY <1>1, Invariance, PTL

\* Once a rollback and a run are through, the pointer names the collection that
\* both AnkiWeb and the newest backup have, in whichever order their downloads,
\* uploads and writes of the pointer came, and though an upload that was given up
\* has been applied late, as long as that was before the last of them.
THEOREM PointersAgree == Spec => []PointerAgrees
<1>1. Inv => PointerAgrees
  BY DEF Inv, LastWriter, Newest, PointerAgrees, Quiet
<1> QED BY <1>1, Invariance, PTL

\* Pruning removes every backup past the retention period and no other; the
\* others keep their order.
THEOREM PruneExact ==
    Spec => [][Prune => \E n \in 0 .. Len(rows) :
                  /\ \A i \in DOMAIN rows : Expired(rows[i]) <=> i <= n
                  /\ rows' = SubSeq(rows, n + 1, Len(rows))]_vars
<1>1. Inv => (Prune => \E n \in 0 .. Len(rows) :
                  /\ \A i \in DOMAIN rows : Expired(rows[i]) <=> i <= n
                  /\ rows' = SubSeq(rows, n + 1, Len(rows)))
  <2> SUFFICES ASSUME Inv, Prune
               PROVE  \E n \in 0 .. Len(rows) :
                         /\ \A i \in DOMAIN rows : Expired(rows[i]) <=> i <= n
                         /\ rows' = SubSeq(rows, n + 1, Len(rows))
    OBVIOUS
  <2>1. /\ ExpiredCount \in 0 .. Len(rows)
        /\ \A i \in DOMAIN rows : Expired(rows[i]) <=> i <= ExpiredCount
    BY ExpiredFirst DEF Inv, TypeInv
  <2>2. rows' = SubSeq(rows, ExpiredCount + 1, Len(rows))
    BY DEF Prune
  <2> QED BY <2>1, <2>2, Zenon
<1> QED BY <1>1, Invariance, PTL
=============================================================================
