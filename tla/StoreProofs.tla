------------------------------ MODULE StoreProofs ------------------------------
(***************************************************************************)
(* The two metadata stores, for all times: SQLite's text order is the      *)
(* order of time, neither store prunes a backup early, and both implement  *)
(* MetadataStore.                                                          *)
(***************************************************************************)
EXTENDS Stores, SequenceTheorems, FiniteSetTheorems, FunctionTheorems, TLAPS

\* Two texts compare like the first symbols in which they differ.
LEMMA FirstDifference ==
    ASSUME NEW x \in Seq(Int), NEW y \in Seq(Int), NEW i \in Nat \ {0},
           i <= Len(x), i <= Len(y), x[i] # y[i],
           \A j \in 1 .. i - 1 : x[j] = y[j]
    PROVE  TextLess(x, y) <=> x[i] < y[i]
<1>0. Len(x) \in Nat /\ Len(y) \in Nat
  BY LenProperties
<1>1. ASSUME x[i] < y[i] PROVE TextLess(x, y)
  <2>1. i \in 1 .. Len(y)
    OBVIOUS
  <2>2. ASSUME NEW j \in 1 .. i - 1 PROVE j <= Len(x) /\ x[j] = y[j]
    <3>1. j \in Int /\ j < i
      OBVIOUS
    <3>2. j <= Len(x)
      BY <1>0, <3>1
    <3> QED BY <3>2
  <2> QED BY <1>1, <2>1, <2>2 DEF TextLess
<1>2. ASSUME TextLess(x, y) PROVE x[i] < y[i]
  <2>1. PICK k \in 1 .. Len(y) :
           /\ \A j \in 1 .. k - 1 : j <= Len(x) /\ x[j] = y[j]
           /\ k <= Len(x) => x[k] < y[k]
    BY <1>2 DEF TextLess
  <2>2. ~(k < i)
    BY <2>1
  <2>3. ~(i < k)
    BY <2>1
  <2> QED BY <2>1, <2>2, <2>3
<1> QED BY <1>1, <1>2

LEMMA TextIrreflexive ==
    ASSUME NEW x \in Seq(Int) PROVE ~TextLess(x, x)
BY DEF TextLess

\* A time is printed with a fraction, and with more than three decimals.
Fraction(t) == t.ms # 0 \/ t.us # 0 \/ t.ns # 0
Fine(t) == t.us # 0 \/ t.ns # 0

LEMMA Fields ==
    ASSUME NEW G, NEW t \in [sec : Nat, ms : G, us : G, ns : G]
    PROVE  /\ t.sec \in Nat /\ t.ms \in G /\ t.us \in G /\ t.ns \in G
           /\ t = [sec |-> t.sec, ms |-> t.ms, us |-> t.us, ns |-> t.ns]
           /\ \A n : [t EXCEPT !.ns = n]
                         = [sec |-> t.sec, ms |-> t.ms, us |-> t.us, ns |-> n]
  OBVIOUS

LEMMA InstantParts ==
    ASSUME NEW t \in AllInstants
    PROVE  /\ t.sec \in Nat /\ t.ms \in Nat /\ t.us \in Nat /\ t.ns \in Nat
           /\ t = [sec |-> t.sec, ms |-> t.ms, us |-> t.us, ns |-> t.ns]
           /\ Micros(t) = [sec |-> t.sec, ms |-> t.ms, us |-> t.us, ns |-> 0]
<1>1. \A d \in Thousand : d \in Nat
  BY DEF Thousand
<1>2. /\ t.sec \in Nat
      /\ t.ms \in Thousand /\ t.us \in Thousand /\ t.ns \in Thousand
      /\ t = [sec |-> t.sec, ms |-> t.ms, us |-> t.us, ns |-> t.ns]
      /\ [t EXCEPT !.ns = 0] = [sec |-> t.sec, ms |-> t.ms, us |-> t.us, ns |-> 0]
  BY Fields DEF AllInstants
<1> QED BY <1>1, <1>2, Zenon DEF Micros

\* The symbols of a text, by the parts of its time.
LEMMA Layout ==
    ASSUME NEW t \in AllInstants
    PROVE  LET x == Rfc3339(t) IN
           /\ x \in Seq(Int)
           /\ Len(x) >= 2 /\ x[1] = t.sec
           /\ x[2] = IF Fraction(t) THEN Dot ELSE Plus
           /\ Fraction(t) => Len(x) >= 4 /\ x[3] = t.ms
           /\ Fraction(t) => x[4] = IF Fine(t) THEN t.us ELSE Plus
           /\ Fine(t) => Len(x) >= 5 /\ x[5] = IF t.ns # 0 THEN t.ns ELSE Plus
<1> DEFINE x == Rfc3339(t)
<1>0. t.sec \in Int /\ t.ms \in Int /\ t.us \in Int /\ t.ns \in Int
  BY InstantParts
<1> USE DEF Dot, Plus, Fraction, Fine
<1>1. CASE t.ns # 0
  <2>1. x = <<t.sec, Dot, t.ms, t.us, t.ns, Plus>>
    BY <1>1 DEF Rfc3339
  <2>2. x \in Seq(Int) /\ Len(x) = 6
    BY <1>0, <2>1
  <2>3. x[1] = t.sec /\ x[2] = Dot /\ x[3] = t.ms /\ x[4] = t.us /\ x[5] = t.ns
    BY <2>1
  <2> HIDE DEF x
  <2> QED BY <1>1, <2>2, <2>3 DEF x
<1>2. CASE t.ns = 0 /\ t.us # 0
  <2>1. x = <<t.sec, Dot, t.ms, t.us, Plus>>
    BY <1>2 DEF Rfc3339
  <2>2. x \in Seq(Int) /\ Len(x) = 5
    BY <1>0, <2>1
  <2>3. x[1] = t.sec /\ x[2] = Dot /\ x[3] = t.ms /\ x[4] = t.us /\ x[5] = Plus
    BY <2>1
  <2> HIDE DEF x
  <2> QED BY <1>2, <2>2, <2>3 DEF x
<1>3. CASE t.ns = 0 /\ t.us = 0 /\ t.ms # 0
  <2>1. x = <<t.sec, Dot, t.ms, Plus>>
    BY <1>3 DEF Rfc3339
  <2> QED BY <1>0, <1>3, <2>1
<1>4. CASE t.ns = 0 /\ t.us = 0 /\ t.ms = 0
  <2>1. x = <<t.sec, Plus>>
    BY <1>4 DEF Rfc3339
  <2> QED BY <1>0, <1>4, <2>1
<1> QED BY <1>1, <1>2, <1>3, <1>4

\* The text that SqliteStore writes for created_at and for the cutoff of pruning
\* sorts like the time, whatever number of decimals each of them has.
THEOREM TextOrder ==
    ASSUME NEW t \in AllInstants, NEW u \in AllInstants
    PROVE  TextLess(Rfc3339(t), Rfc3339(u)) <=> Before(t, u)
<1> DEFINE x == Rfc3339(t)
           y == Rfc3339(u)
<1>1. /\ x \in Seq(Int)
      /\ Len(x) >= 2 /\ x[1] = t.sec
      /\ x[2] = IF Fraction(t) THEN Dot ELSE Plus
      /\ Fraction(t) => Len(x) >= 4 /\ x[3] = t.ms
      /\ Fraction(t) => x[4] = IF Fine(t) THEN t.us ELSE Plus
      /\ Fine(t) => Len(x) >= 5 /\ x[5] = IF t.ns # 0 THEN t.ns ELSE Plus
  BY Layout
<1>2. /\ y \in Seq(Int)
      /\ Len(y) >= 2 /\ y[1] = u.sec
      /\ y[2] = IF Fraction(u) THEN Dot ELSE Plus
      /\ Fraction(u) => Len(y) >= 4 /\ y[3] = u.ms
      /\ Fraction(u) => y[4] = IF Fine(u) THEN u.us ELSE Plus
      /\ Fine(u) => Len(y) >= 5 /\ y[5] = IF u.ns # 0 THEN u.ns ELSE Plus
  BY Layout
<1>3. /\ t.sec \in Nat /\ t.ms \in Nat /\ t.us \in Nat /\ t.ns \in Nat
      /\ u.sec \in Nat /\ u.ms \in Nat /\ u.us \in Nat /\ u.ns \in Nat
  BY InstantParts
<1>4. t = u => x = y
  OBVIOUS
<1> HIDE DEF x, y
<1>5. /\ Len(x) \in Nat /\ Len(y) \in Nat
  BY <1>1, <1>2, LenProperties, Zenon
<1>6. Len(x) >= 2 /\ Len(y) >= 2
  BY <1>1, <1>2, Zenon
<1>7. CASE t.sec # u.sec
  <2>1. \A j \in 1 .. 1 - 1 : x[j] = y[j]
    OBVIOUS
  <2>2. 1 <= Len(x) /\ 1 <= Len(y)
    BY <1>5, <1>6
  <2>3. x[1] # y[1]
    BY <1>1, <1>2, <1>7
  <2>4. x \in Seq(Int) /\ y \in Seq(Int)
    BY <1>1, <1>2
  <2>5. TextLess(x, y) <=> x[1] < y[1]
    BY <2>1, <2>2, <2>3, <2>4, FirstDifference
  <2>6. x[1] = t.sec /\ y[1] = u.sec
    BY <1>1, <1>2, Zenon
  <2>7. Before(t, u) <=> t.sec < u.sec
    BY <1>3, <1>7 DEF Before
  <2> QED BY <2>5, <2>6, <2>7 DEF x, y
<1>8. CASE t.sec = u.sec /\ ((Fraction(t) /\ ~Fraction(u)) \/ (~Fraction(t) /\ Fraction(u)))
  <2>1. \A j \in 1 .. 2 - 1 : x[j] = y[j]
    BY <1>1, <1>2, <1>8
  <2>2. x \in Seq(Int) /\ y \in Seq(Int)
    BY <1>1, <1>2, Zenon
  <2>3. x[2] # y[2] => (TextLess(x, y) <=> x[2] < y[2])
    BY <1>5, <1>6, <2>1, <2>2, FirstDifference
  <2>4. CASE Fraction(t) /\ ~Fraction(u)
    <3>1. x[2] = -1 /\ y[2] = -2
      BY <1>1, <1>2, <2>4 DEF Dot, Plus
    <3>2. ~Before(t, u)
      BY <1>3, <1>8, <2>4 DEF Before, Fraction
    <3> QED BY <2>3, <3>1, <3>2 DEF x, y
  <2>5. CASE ~Fraction(t) /\ Fraction(u)
    <3>1. x[2] = -2 /\ y[2] = -1
      BY <1>1, <1>2, <2>5 DEF Dot, Plus
    <3>2. Before(t, u)
      BY <1>3, <1>8, <2>5 DEF Before, Fraction
    <3> QED BY <2>3, <3>1, <3>2 DEF x, y
  <2> QED BY <1>8, <2>4, <2>5
<1>9. CASE t.sec = u.sec /\ ~Fraction(t) /\ ~Fraction(u)
  <2>1. t = u
    BY <1>9, InstantParts DEF Fraction
  <2>2. ~TextLess(x, x)
    BY <1>1, TextIrreflexive
  <2>3. ~Before(t, t)
    BY <1>3 DEF Before
  <2> QED BY <1>4, <2>1, <2>2, <2>3 DEF x, y
<1>10. CASE t.sec = u.sec /\ Fraction(t) /\ Fraction(u)
  <2>1. /\ Len(x) >= 4 /\ Len(y) >= 4
        /\ x[1] = y[1] /\ x[2] = y[2]
        /\ x[3] = t.ms /\ y[3] = u.ms
    BY <1>1, <1>2, <1>10
  <2>2. /\ x[4] = IF Fine(t) THEN t.us ELSE Plus
        /\ y[4] = IF Fine(u) THEN u.us ELSE Plus
    BY <1>1, <1>2, <1>10
  <2>3. x \in Seq(Int) /\ y \in Seq(Int)
    BY <1>1, <1>2, Zenon
  <2>4. \A j \in 1 .. 3 - 1 : x[j] = y[j]
    BY <2>1
  <2>5. CASE t.ms # u.ms
    <3>1. TextLess(x, y) <=> x[3] < y[3]
      <4>1. PICK i \in Nat \ {0} : i = 3
        OBVIOUS
      <4>2. i <= Len(x) /\ i <= Len(y) /\ x[i] # y[i]
        BY <1>5, <2>1, <2>5, <4>1
      <4>3. \A j \in 1 .. i - 1 : x[j] = y[j]
        BY <2>4, <4>1
      <4> QED BY <2>3, <4>1, <4>2, <4>3, FirstDifference
    <3>2. Before(t, u) <=> t.ms < u.ms
      BY <1>3, <1>10, <2>5 DEF Before
    <3> QED BY <2>1, <3>1, <3>2 DEF x, y
  <2>6. CASE t.ms = u.ms
    <3>1. \A j \in 1 .. 4 - 1 : x[j] = y[j]
      BY <2>1, <2>6
    <3>2. x[4] # y[4] => (TextLess(x, y) <=> x[4] < y[4])
      <4>1. PICK i \in Nat \ {0} : i = 4
        OBVIOUS
      <4>2. i <= Len(x) /\ i <= Len(y)
        BY <1>5, <2>1, <4>1
      <4>3. \A j \in 1 .. i - 1 : x[j] = y[j]
        BY <3>1, <4>1
      <4> QED BY <2>3, <4>1, <4>2, <4>3, FirstDifference
    <3>3. CASE Fine(t) /\ ~Fine(u)
      <4>1. x[4] = t.us /\ y[4] = -2
        BY <2>2, <3>3 DEF Plus
      <4>2. ~Before(t, u)
        BY <1>3, <1>10, <2>6, <3>3 DEF Before, Fine
      <4> QED BY <1>3, <3>2, <4>1, <4>2 DEF x, y
    <3>4. CASE ~Fine(t) /\ Fine(u)
      <4>1. x[4] = -2 /\ y[4] = u.us
        BY <2>2, <3>4 DEF Plus
      <4>2. Before(t, u)
        BY <1>3, <1>10, <2>6, <3>4 DEF Before, Fine
      <4> QED BY <1>3, <3>2, <4>1, <4>2 DEF x, y
    <3>5. CASE ~Fine(t) /\ ~Fine(u)
      <4>1. t = u
        BY <1>10, <2>6, <3>5, InstantParts DEF Fine
      <4>2. ~TextLess(x, x)
        BY <2>3, TextIrreflexive
      <4>3. ~Before(t, t)
        BY <1>3 DEF Before
      <4> QED BY <1>4, <4>1, <4>2, <4>3 DEF x, y
    <3>6. CASE Fine(t) /\ Fine(u)
      <4>1. /\ Len(x) >= 5 /\ Len(y) >= 5
            /\ x[4] = t.us /\ y[4] = u.us
        BY <1>1, <1>2, <2>2, <3>6
      <4>2. /\ x[5] = IF t.ns # 0 THEN t.ns ELSE Plus
            /\ y[5] = IF u.ns # 0 THEN u.ns ELSE Plus
        BY <1>1, <1>2, <3>6
      <4>3. CASE t.us # u.us
        <5>1. Before(t, u) <=> t.us < u.us
          BY <1>3, <1>10, <2>6, <4>3 DEF Before
        <5> QED BY <3>2, <4>1, <4>3, <5>1 DEF x, y
      <4>4. CASE t.us = u.us
        <5>1. \A j \in 1 .. 5 - 1 : x[j] = y[j]
          BY <2>1, <2>6, <4>1, <4>4
        <5>2. x[5] # y[5] => (TextLess(x, y) <=> x[5] < y[5])
          <6>1. PICK i \in Nat \ {0} : i = 5
            OBVIOUS
          <6>2. i <= Len(x) /\ i <= Len(y)
            BY <1>5, <4>1, <6>1
          <6>3. \A j \in 1 .. i - 1 : x[j] = y[j]
            BY <5>1, <6>1
          <6> QED BY <2>3, <6>1, <6>2, <6>3, FirstDifference
        <5>3. Before(t, u) <=> t.ns < u.ns
          BY <1>3, <1>10, <2>6, <4>4 DEF Before
        <5>4. CASE t.ns # u.ns
          <6>1. x[5] # y[5] /\ (x[5] < y[5] <=> t.ns < u.ns)
            BY <1>3, <4>2, <5>4 DEF Plus
          <6> QED BY <5>2, <5>3, <6>1 DEF x, y
        <5>5. CASE t.ns = u.ns
          <6>1. t = u
            BY <1>10, <2>6, <4>4, <5>5, InstantParts
          <6>2. ~TextLess(x, x)
            BY <2>3, TextIrreflexive
          <6> QED BY <1>3, <1>4, <5>3, <5>5, <6>1, <6>2 DEF x, y
        <5> QED BY <5>4, <5>5
      <4> QED BY <4>3, <4>4
    <3> QED BY <3>3, <3>4, <3>5, <3>6
  <2> QED BY <2>5, <2>6
<1>11. \/ t.sec # u.sec
       \/ t.sec = u.sec /\ ((Fraction(t) /\ ~Fraction(u)) \/ (~Fraction(t) /\ Fraction(u)))
       \/ t.sec = u.sec /\ ~Fraction(t) /\ ~Fraction(u)
       \/ t.sec = u.sec /\ Fraction(t) /\ Fraction(u)
  BY DEF Fraction
<1> QED BY <1>7, <1>8, <1>9, <1>10, <1>11, Zenon

\* parse_ts reads the time that to_rfc3339 has written.
THEOREM RoundTrip ==
    ASSUME NEW t \in AllInstants
    PROVE  ParseTs(Rfc3339(t)) = t
<1> DEFINE x == Rfc3339(t)
<1>0. t = [sec |-> t.sec, ms |-> t.ms, us |-> t.us, ns |-> t.ns]
  BY InstantParts
<1>1. CASE t.ns # 0
  <2>1. x = <<t.sec, Dot, t.ms, t.us, t.ns, Plus>>
    BY <1>1 DEF Rfc3339
  <2>2. Len(x) = 6 /\ x[1] = t.sec /\ x[3] = t.ms /\ x[4] = t.us /\ x[5] = t.ns
    BY <2>1
  <2> HIDE DEF x
  <2>3. ParseTs(x) = [sec |-> t.sec, ms |-> t.ms, us |-> t.us, ns |-> t.ns]
    BY <2>2 DEF ParseTs
  <2> QED BY <1>0, <2>3 DEF x
<1>2. CASE t.ns = 0 /\ t.us # 0
  <2>1. x = <<t.sec, Dot, t.ms, t.us, Plus>>
    BY <1>2 DEF Rfc3339
  <2>2. Len(x) = 5 /\ x[1] = t.sec /\ x[3] = t.ms /\ x[4] = t.us
    BY <2>1
  <2> HIDE DEF x
  <2>3. ParseTs(x) = [sec |-> t.sec, ms |-> t.ms, us |-> t.us, ns |-> t.ns]
    BY <1>2, <2>2 DEF ParseTs
  <2> QED BY <1>0, <2>3 DEF x
<1>3. CASE t.ns = 0 /\ t.us = 0 /\ t.ms # 0
  <2>1. x = <<t.sec, Dot, t.ms, Plus>>
    BY <1>3 DEF Rfc3339
  <2>2. Len(x) = 4 /\ x[1] = t.sec /\ x[3] = t.ms
    BY <2>1
  <2> HIDE DEF x
  <2>3. ParseTs(x) = [sec |-> t.sec, ms |-> t.ms, us |-> t.us, ns |-> t.ns]
    BY <1>3, <2>2 DEF ParseTs
  <2> QED BY <1>0, <2>3 DEF x
<1>4. CASE t.ns = 0 /\ t.us = 0 /\ t.ms = 0
  <2>1. x = <<t.sec, Plus>>
    BY <1>4 DEF Rfc3339
  <2>2. Len(x) = 2 /\ x[1] = t.sec
    BY <2>1
  <2> HIDE DEF x
  <2>3. ParseTs(x) = [sec |-> t.sec, ms |-> t.ms, us |-> t.us, ns |-> t.ns]
    BY <1>4, <2>2 DEF ParseTs
  <2> QED BY <1>0, <2>3 DEF x
<1> QED BY <1>1, <1>2, <1>3, <1>4

-----------------------------------------------------------------------------
\* Without its nanoseconds a time is before another only if it is.
LEMMA MicrosBefore ==
    ASSUME NEW t \in AllInstants, NEW c \in AllInstants,
           Before(Micros(t), Micros(c))
    PROVE  Before(t, c)
<1>1. /\ t.sec \in Nat /\ t.ms \in Nat /\ t.us \in Nat /\ t.ns \in Nat
      /\ c.sec \in Nat /\ c.ms \in Nat /\ c.us \in Nat /\ c.ns \in Nat
  BY InstantParts
<1>2. ASSUME NEW v \in AllInstants
      PROVE  /\ Micros(v).sec = v.sec /\ Micros(v).ms = v.ms
             /\ Micros(v).us = v.us /\ Micros(v).ns = 0
  BY InstantParts
<1> QED BY <1>1, <1>2 DEF Before

\* The column of a row is the time it was given, as the store keeps it; rows have
\* ids of their own, and those that pruning has selected are still there and old.
Kept ==
    /\ cutoff \in AllInstants
    /\ \A r \in backups :
          /\ r.id \in DOMAIN given /\ given[r.id] \in AllInstants
          /\ r.created_at = Bind(given[r.id])
    /\ \A r, s \in backups : r.id = s.id => r = s
    /\ \A r \in doomed : r \in backups /\ Before(given[r.id], cutoff)
    /\ ~Sqlite => doomed = {}

\* In either column a time that is less is earlier.
LEMMA LessIsBefore ==
    ASSUME NEW t \in AllInstants, NEW c \in AllInstants, Less(Bind(t), Bind(c))
    PROVE  Before(t, c)
<1>1. CASE Sqlite
  BY <1>1, TextOrder DEF Less, Bind
<1>2. CASE ~Sqlite
  BY <1>2, MicrosBefore DEF Less, Bind
<1> QED BY <1>1, <1>2

\* What pruning asks for is older than its cutoff.
LEMMA ExpiredIsOld ==
    ASSUME Kept, NEW c \in AllInstants, NEW r \in Expired(c)
    PROVE  r \in backups /\ Before(given[r.id], c)
<1>1. r \in backups /\ Less(r.created_at, Bind(c))
  BY DEF Expired, Created
<1>2. given[r.id] \in AllInstants /\ r.created_at = Bind(given[r.id])
  BY <1>1 DEF Kept
<1> QED BY <1>1, <1>2, LessIsBefore

LEMMA EntryTime ==
    ASSUME NEW e \in Entries
    PROVE  e.at \in AllInstants
<1>1. PICK i \in Ids, t \in Instants, h \in Hashes :
         e = CreatedEntry(i, t, h) \/ e = SkippedEntry(i, t, h)
  BY DEF Entries
<1>2. CreatedEntry(i, t, h).at = t
  BY DEF CreatedEntry
<1>3. SkippedEntry(i, t, h).at = t
  BY DEF SkippedEntry
<1>4. e.at = t
  BY <1>1, <1>2, <1>3, Zenon
<1> QED BY <1>4, InstantAssumption

LEMMA KeptInsert == Kept /\ InsertEntry => Kept'
<1> SUFFICES ASSUME Kept, InsertEntry PROVE Kept'
  OBVIOUS
<1>1. PICK e \in Entries :
         /\ \A r \in backups : r.id # e.id
         /\ backups' = backups \cup {ToRow(e)}
         /\ given' = [i \in DOMAIN given \cup {e.id} |->
                         IF i = e.id THEN e.at ELSE given[i]]
  BY DEF InsertEntry
<1>2. UNCHANGED <<backend, doomed, cutoff>>
  BY DEF InsertEntry
<1>3. e.at \in AllInstants
  BY EntryTime
<1>4. ToRow(e).id = e.id /\ ToRow(e).created_at = Bind(e.at)
  BY DEF ToRow
<1>5. \A t : Bind(t)' = Bind(t)
  BY <1>2 DEF Bind, Sqlite
<1>6. \A r \in backups : given'[r.id] = given[r.id] /\ r.id \in DOMAIN given'
  BY <1>1 DEF Kept
<1>7. given'[e.id] = e.at /\ e.id \in DOMAIN given'
  BY <1>1
<1>8. \A r \in backups' :
         /\ r.id \in DOMAIN given' /\ given'[r.id] \in AllInstants
         /\ r.created_at = Bind(given'[r.id])
  BY <1>1, <1>3, <1>4, <1>6, <1>7 DEF Kept
<1>9. \A r, s \in backups' : r.id = s.id => r = s
  BY <1>1, <1>4 DEF Kept
<1>10. \A r \in doomed' : r \in backups' /\ Before(given'[r.id], cutoff')
  BY <1>1, <1>2, <1>6 DEF Kept
<1>11. cutoff' \in AllInstants
  BY <1>2 DEF Kept
<1> QED BY <1>2, <1>8, <1>9, <1>10, <1>11 DEF Kept, Bind, Sqlite

\* Fewer rows, of which those in doomed remain, are kept as well.
LEMMA KeptFewer ==
    ASSUME Kept, UNCHANGED <<backend, given>>, cutoff' \in AllInstants,
           backups' \subseteq backups, ~Sqlite => doomed' = {},
           \A r \in doomed' : r \in backups' /\ Before(given[r.id], cutoff')
    PROVE  Kept'
BY DEF Kept, Bind, Sqlite

LEMMA KeptNext == Kept /\ [Next]_vars => Kept'
<1> SUFFICES ASSUME Kept, [Next]_vars PROVE Kept'
  OBVIOUS
<1>1. CASE InsertEntry
  BY <1>1, KeptInsert
<1>2. CASE ListBackups \/ GetBackup \/ LastCreatedHash \/ UNCHANGED vars
  <2>1. UNCHANGED <<backend, backups, doomed, cutoff, given>>
    BY <1>2 DEF ListBackups, GetBackup, LastCreatedHash, vars
  <2> QED BY <2>1, KeptFewer DEF Kept
<1>3. CASE SelectDoomed
  <2>1. /\ Sqlite /\ UNCHANGED <<backend, backups, given>>
        /\ cutoff' \in AllInstants /\ doomed' = Expired(cutoff')
    BY <1>3, InstantAssumption DEF SelectDoomed
  <2>2. \A r \in doomed' : r \in backups' /\ Before(given[r.id], cutoff')
    BY <2>1, ExpiredIsOld
  <2> QED BY <2>1, <2>2, KeptFewer
<1>4. CASE DeleteRow
  <2>1. UNCHANGED <<backend, cutoff, given>>
    BY <1>4 DEF DeleteRow
  <2>2. PICK r \in doomed :
           /\ backups' = {s \in backups : s.id # r.id}
           /\ doomed' = doomed \ {r}
    BY <1>4 DEF DeleteRow
  <2>3. \A q \in doomed' : q \in backups' /\ Before(given[q.id], cutoff')
    BY <2>1, <2>2 DEF Kept
  <2> QED BY <2>1, <2>2, <2>3, KeptFewer DEF Kept
<1>5. CASE DeleteFails
  <2>1. UNCHANGED <<backend, backups, cutoff, given>> /\ doomed' = {}
    BY <1>5 DEF DeleteFails
  <2> QED BY <2>1, KeptFewer DEF Kept
<1>6. CASE DeleteReturning
  <2>1. /\ UNCHANGED <<backend, doomed, given>> /\ ~Sqlite
        /\ cutoff' \in AllInstants /\ backups' = backups \ Expired(cutoff')
    BY <1>6, InstantAssumption DEF DeleteReturning
  <2>2. doomed' = {}
    BY <2>1 DEF Kept
  <2>3. backups' \subseteq backups
    BY <2>1
  <2> QED BY <2>1, <2>2, <2>3, KeptFewer
<1> QED BY <1>1, <1>2, <1>3, <1>4, <1>5, <1>6 DEF Next

\* Neither the text of SQLite nor the microseconds of Postgres make
\* prune_created_before delete a backup that is younger than its cutoff.
THEOREM NoneEarly == Spec => NonePrunedEarly
<1> DEFINE Late == \A r \in backups \ backups' : Before(given[r.id], cutoff')
<1>1. Init => Kept
  BY InstantAssumption DEF Init, Kept
<1>2. Kept /\ [Next]_vars => [Late]_vars
  <2> SUFFICES ASSUME Kept, Next, NEW r \in backups \ backups'
               PROVE  Before(given[r.id], cutoff')
    OBVIOUS
  <2>1. CASE DeleteReturning
    <3>1. cutoff' \in AllInstants /\ r \in Expired(cutoff')
      BY <2>1, InstantAssumption DEF DeleteReturning
    <3> QED BY <3>1, ExpiredIsOld
  <2>2. CASE DeleteRow
    <3>1. PICK q \in doomed : backups' = {s \in backups : s.id # q.id}
      BY <2>2 DEF DeleteRow
    <3>2. cutoff' = cutoff /\ r.id = q.id
      BY <2>2, <3>1 DEF DeleteRow
    <3> QED BY <3>1, <3>2 DEF Kept
  <2>3. CASE InsertEntry
    BY <2>3 DEF InsertEntry
  <2>4. CASE ListBackups \/ GetBackup \/ LastCreatedHash \/ SelectDoomed \/ DeleteFails
    BY <2>4 DEF ListBackups, GetBackup, LastCreatedHash, SelectDoomed, DeleteFails
  <2> QED BY <2>1, <2>2, <2>3, <2>4 DEF Next
<1> QED BY <1>1, <1>2, KeptNext, PTL DEF Spec, NonePrunedEarly

-----------------------------------------------------------------------------
\* The time that comes back for the time t that went in.
KeptTime(t) == IF Sqlite THEN t ELSE Micros(t)

\* A time that has been read back is one of the times of the abstract store.
LEMMA ReadBack ==
    ASSUME NEW t \in Instants
    PROVE  /\ t \in AllInstants
           /\ KeptTime(t) \in Times /\ KeptTime(t) \in AllInstants
           /\ (IF Sqlite THEN ParseTs(Bind(t)) ELSE Bind(t)) = KeptTime(t)
<1>1. t \in AllInstants
  BY InstantAssumption
<1>2. Micros(t) \in AllInstants
  <2>1. 0 \in Thousand
    BY DEF Thousand
  <2>2. /\ t.sec \in Nat /\ t.ms \in Thousand /\ t.us \in Thousand
        /\ [t EXCEPT !.ns = 0] = [sec |-> t.sec, ms |-> t.ms, us |-> t.us, ns |-> 0]
    BY <1>1, Fields DEF AllInstants
  <2> QED BY <2>1, <2>2 DEF Micros, AllInstants
<1>3. t \in Times /\ Micros(t) \in Times
  BY DEF Times
<1>4. ParseTs(Rfc3339(t)) = t
  BY <1>1, RoundTrip
<1> QED BY <1>1, <1>2, <1>3, <1>4, Zenon DEF KeptTime, Bind

\* The order of the column is the order of the times that come back.
LEMMA ColumnOrder ==
    ASSUME NEW t \in AllInstants, NEW u \in AllInstants
    PROVE  Less(Bind(t), Bind(u)) <=> Before(KeptTime(t), KeptTime(u))
<1>1. CASE Sqlite
  BY <1>1, TextOrder DEF Less, Bind, KeptTime
<1>2. CASE ~Sqlite
  BY <1>2 DEF Less, Bind, KeptTime
<1> QED BY <1>1, <1>2

\* No time is before itself.
LEMMA BeforeIrreflexive ==
    ASSUME NEW t \in AllInstants PROVE ~Before(t, t)
BY InstantParts DEF Before

\* row_to_entry undoes insert_entry, but for the nanoseconds that Postgres drops.
LEMMA TheEntry ==
    ASSUME NEW i, NEW h, NEW t \in Instants
    PROVE  /\ RowToEntry(ToRow(CreatedEntry(i, t, h)))
                = CreatedEntry(i, KeptTime(t), h)
           /\ RowToEntry(ToRow(SkippedEntry(i, t, h)))
                = SkippedEntry(i, KeptTime(t), h)
<1>0. PICK b, k : b = Bind(t) /\ k = KeptTime(t)
  OBVIOUS
<1>1. (IF Sqlite THEN ParseTs(b) ELSE b) = k
  BY <1>0, ReadBack
<1>2. ToRow(CreatedEntry(i, t, h)) =
        [id |-> i, created_at |-> b, timestamp_dir |-> "dir", content_hash |-> h,
         status |-> "created", skip_reason |-> "NULL", stats_json |-> "Some"]
  BY <1>0 DEF ToRow, CreatedEntry, StatusStr, SkipReasonStr
<1>3. ToRow(SkippedEntry(i, t, h)) =
        [id |-> i, created_at |-> b, timestamp_dir |-> "", content_hash |-> h,
         status |-> "skipped", skip_reason |-> "unchanged", stats_json |-> "None"]
  BY <1>0 DEF ToRow, SkippedEntry, StatusStr, SkipReasonStr
<1>4. RowToEntry(ToRow(CreatedEntry(i, t, h))) = CreatedEntry(i, k, h)
  BY <1>1, <1>2 DEF RowToEntry, CreatedEntry, ParseStatus, ParseSkipReason
<1>5. RowToEntry(ToRow(SkippedEntry(i, t, h))) = SkippedEntry(i, k, h)
  <2>1. PICK r : r = ToRow(SkippedEntry(i, t, h))
    OBVIOUS
  <2>2. /\ r.id = i /\ r.created_at = b /\ r.timestamp_dir = ""
        /\ r.content_hash = h /\ r.status = "skipped"
        /\ r.skip_reason = "unchanged" /\ r.stats_json = "None"
    <3>1. PICK d : d = ""
      OBVIOUS
    <3>2. r = [id |-> i, created_at |-> b, timestamp_dir |-> d, content_hash |-> h,
               status |-> "skipped", skip_reason |-> "unchanged",
               stats_json |-> "None"]
      BY <1>3, <2>1, <3>1, Zenon
    <3>3. r.timestamp_dir = d /\ r.id = i /\ r.created_at = b
          /\ r.content_hash = h /\ r.status = "skipped"
          /\ r.skip_reason = "unchanged" /\ r.stats_json = "None"
      BY <3>2
    <3> QED BY <3>1, <3>3, Zenon
  <2>3. ParseStatus("skipped") = "Skipped" /\ ParseSkipReason("unchanged") = "Unchanged"
    BY DEF ParseStatus, ParseSkipReason
  <2> QED BY <1>1, <2>1, <2>2, <2>3, Zenon DEF RowToEntry, SkippedEntry
<1> QED BY <1>0, <1>4, <1>5

\* Every row is that of an entry that was inserted; there are finitely many, each
\* with an id of its own; what pruning has selected is there and has expired.
RowsInv ==
    /\ IsFiniteSet(backups)
    /\ cutoff \in Instants
    /\ \A r \in backups : \E e \in Entries : r = ToRow(e)
    /\ \A r, s \in backups : r.id = s.id => r = s
    /\ doomed \subseteq Expired(cutoff)

\* A row and the entry it is read back as agree.
Agree(r, e) ==
    /\ e.id = r.id /\ e.hash = r.content_hash
    /\ e.status = "Created" <=> r.status = "created"
    /\ \E t \in Instants : r.created_at = Bind(t) /\ e.at = KeptTime(t)

\* The row of an entry and what is read back from it.
LEMMA RowOfEntry ==
    ASSUME NEW e \in Entries
    PROVE  /\ RowToEntry(ToRow(e)) \in Store!Entries
           /\ Agree(ToRow(e), RowToEntry(ToRow(e)))
           /\ ToRow(e).id = e.id
<1>1. PICK i \in Ids, t \in Instants, h \in Hashes :
         e = CreatedEntry(i, t, h) \/ e = SkippedEntry(i, t, h)
  BY DEF Entries
<1>2. PICK k : k = KeptTime(t)
  OBVIOUS
<1>3. k \in Times /\ t \in AllInstants
  BY <1>2, ReadBack
<1>4. ToRow(e).created_at = Bind(e.at) /\ ToRow(e).id = e.id
      /\ ToRow(e).content_hash = e.hash /\ ToRow(e).status = StatusStr(e.status)
  BY DEF ToRow
<1>5. CASE e = CreatedEntry(i, t, h)
  <2>1. RowToEntry(ToRow(e)) = CreatedEntry(i, k, h)
    BY <1>2, <1>5, TheEntry
  <2>2. CreatedEntry(i, k, h) \in Store!Entries
    BY <1>3 DEF Store!Entries, Store!CreatedEntry, CreatedEntry
  <2>3. e.at = t /\ e.id = i /\ e.hash = h /\ e.status = "Created"
    BY <1>5 DEF CreatedEntry
  <2>4. /\ CreatedEntry(i, k, h).at = k /\ CreatedEntry(i, k, h).id = i
        /\ CreatedEntry(i, k, h).hash = h
        /\ CreatedEntry(i, k, h).status = "Created"
    BY DEF CreatedEntry
  <2>5. ToRow(e).status = "created"
    BY <1>4, <2>3 DEF StatusStr
  <2> QED BY <1>2, <1>3, <1>4, <2>1, <2>2, <2>3, <2>4, <2>5, Zenon DEF Agree
<1>6. CASE e = SkippedEntry(i, t, h)
  <2>1. RowToEntry(ToRow(e)) = SkippedEntry(i, k, h)
    BY <1>2, <1>6, TheEntry
  <2>2. SkippedEntry(i, k, h) \in Store!Entries
    <3>1. SkippedEntry(i, k, h) = Store!SkippedEntry(i, k, h)
      BY Zenon DEF Store!SkippedEntry, SkippedEntry
    <3> QED BY <1>3, <3>1 DEF Store!Entries
  <2>3. e.at = t /\ e.id = i /\ e.hash = h /\ e.status = "Skipped"
    BY <1>6 DEF SkippedEntry
  <2>4. /\ SkippedEntry(i, k, h).at = k /\ SkippedEntry(i, k, h).id = i
        /\ SkippedEntry(i, k, h).hash = h
        /\ SkippedEntry(i, k, h).status = "Skipped"
    BY DEF SkippedEntry
  <2>5. ToRow(e).status = "skipped"
    BY <1>4, <2>3 DEF StatusStr
  <2>6. "skipped" # "created" /\ "Skipped" # "Created"
    OBVIOUS
  <2> QED BY <1>2, <1>3, <1>4, <2>1, <2>2, <2>3, <2>4, <2>5, <2>6, Zenon DEF Agree
<1> QED BY <1>1, <1>5, <1>6

\* The same for a row of the table.
LEMMA RowAgrees ==
    ASSUME RowsInv, NEW r \in backups
    PROVE  Agree(r, RowToEntry(r))
BY RowOfEntry DEF RowsInv

\* Two rows compare by the column as their entries do by time.
LEMMA RowOrder ==
    ASSUME RowsInv, NEW r \in backups, NEW s \in backups
    PROVE  Less(r.created_at, s.created_at)
               <=> Before(RowToEntry(r).at, RowToEntry(s).at)
<1>1. PICK t \in Instants :
         r.created_at = Bind(t) /\ RowToEntry(r).at = KeptTime(t)
  BY RowAgrees DEF Agree
<1>2. PICK u \in Instants :
         s.created_at = Bind(u) /\ RowToEntry(s).at = KeptTime(u)
  BY RowAgrees DEF Agree
<1>3. t \in AllInstants /\ u \in AllInstants
  BY InstantAssumption
<1> QED BY <1>1, <1>2, <1>3, ColumnOrder

\* What has expired by the column is created and has expired by time.
LEMMA ExpiredByTime ==
    ASSUME RowsInv, NEW c \in Instants, NEW r \in Expired(c)
    PROVE  /\ r \in backups
           /\ RowToEntry(r).status = "Created"
           /\ Before(RowToEntry(r).at, KeptTime(c))
<1>1. r \in backups /\ r.status = "created" /\ Less(r.created_at, Bind(c))
  BY DEF Expired, Created
<1>2. Agree(r, RowToEntry(r))
  BY <1>1, RowAgrees
<1>3. PICK t \in Instants :
         r.created_at = Bind(t) /\ RowToEntry(r).at = KeptTime(t)
  BY <1>2 DEF Agree
<1>4. c \in AllInstants /\ t \in AllInstants
  BY InstantAssumption
<1>5. Before(KeptTime(t), KeptTime(c))
  BY <1>1, <1>3, <1>4, ColumnOrder
<1> QED BY <1>1, <1>2, <1>3, <1>5 DEF Agree

\* Fewer rows, of which those in doomed have expired, are rows as well.
LEMMA RowsFewer ==
    ASSUME RowsInv, UNCHANGED backend, cutoff' \in Instants,
           backups' \subseteq backups, doomed' \subseteq backups',
           \A r \in doomed' : r \in Created /\ Less(r.created_at, Bind(cutoff'))
    PROVE  RowsInv'
<1>1. IsFiniteSet(backups')
  BY FS_Subset DEF RowsInv
<1>2. \A e : ToRow(e)' = ToRow(e)
  BY DEF ToRow, Bind, Sqlite
<1>3. \A r \in backups' : \E e \in Entries : r = ToRow(e)'
  BY <1>2 DEF RowsInv
<1>4. \A r, s \in backups' : r.id = s.id => r = s
  BY DEF RowsInv
<1>5. doomed' \subseteq Expired(cutoff)'
  BY DEF Expired, Created, Less, Bind, Sqlite
<1> QED BY <1>1, <1>3, <1>4, <1>5 DEF RowsInv

\* insert_entry adds the row of an entry, with an id that no other row has.
LEMMA RowsInsert == RowsInv /\ InsertEntry => RowsInv'
<1> SUFFICES ASSUME RowsInv, InsertEntry PROVE RowsInv'
  OBVIOUS
<1>1. PICK e \in Entries :
         /\ \A r \in backups : r.id # e.id
         /\ backups' = backups \cup {ToRow(e)}
  BY DEF InsertEntry
<1>2. UNCHANGED <<backend, doomed, cutoff>>
  BY DEF InsertEntry
<1>3. \A d : ToRow(d)' = ToRow(d)
  BY <1>2 DEF ToRow, Bind, Sqlite
<1>4. ToRow(e).id = e.id
  BY RowOfEntry
<1>5. IsFiniteSet(backups')
  BY <1>1, FS_AddElement DEF RowsInv
<1>6. \A r \in backups' : \E d \in Entries : r = ToRow(d)'
  BY <1>1, <1>3 DEF RowsInv
<1>7. \A r, s \in backups' : r.id = s.id => r = s
  BY <1>1, <1>4 DEF RowsInv
<1>8. doomed' \subseteq Expired(cutoff)'
  BY <1>1, <1>2 DEF RowsInv, Expired, Created, Less, Bind, Sqlite
<1> QED BY <1>2, <1>5, <1>6, <1>7, <1>8 DEF RowsInv

\* No operation leaves anything else in the table.
LEMMA RowsNext == Kept /\ RowsInv /\ [Next]_vars => RowsInv'
<1> SUFFICES ASSUME Kept, RowsInv, [Next]_vars PROVE RowsInv'
  OBVIOUS
<1>0. \A c, r : r \in Expired(c) =>
         r \in backups /\ r \in Created /\ Less(r.created_at, Bind(c))
  BY DEF Expired, Created
<1>1. CASE InsertEntry
  BY <1>1, RowsInsert
<1>2. CASE ListBackups \/ GetBackup \/ LastCreatedHash \/ UNCHANGED vars
  <2>1. UNCHANGED <<backend, backups, doomed, cutoff>>
    BY <1>2 DEF ListBackups, GetBackup, LastCreatedHash, vars
  <2> QED BY <1>0, <2>1, RowsFewer DEF RowsInv
<1>3. CASE SelectDoomed
  <2>1. /\ UNCHANGED <<backend, backups>>
        /\ cutoff' \in Instants /\ doomed' = Expired(cutoff')
    BY <1>3 DEF SelectDoomed
  <2> QED BY <1>0, <2>1, RowsFewer
<1>4. CASE DeleteRow
  <2>1. UNCHANGED <<backend, cutoff>>
    BY <1>4 DEF DeleteRow
  <2>2. PICK r \in doomed :
           /\ backups' = {s \in backups : s.id # r.id}
           /\ doomed' = doomed \ {r}
    BY <1>4 DEF DeleteRow
  <2>3. doomed' \subseteq backups'
    BY <1>0, <2>2 DEF RowsInv
  <2>4. \A q \in doomed' : q \in Created /\ Less(q.created_at, Bind(cutoff'))
    BY <1>0, <2>1, <2>2 DEF RowsInv
  <2> QED BY <2>1, <2>2, <2>3, <2>4, RowsFewer DEF RowsInv
<1>5. CASE DeleteFails
  <2>1. UNCHANGED <<backend, backups, cutoff>> /\ doomed' = {}
    BY <1>5 DEF DeleteFails
  <2> QED BY <2>1, RowsFewer DEF RowsInv
<1>6. CASE DeleteReturning
  <2>1. /\ UNCHANGED <<backend, doomed>>
        /\ cutoff' \in Instants /\ backups' = backups \ Expired(cutoff')
    BY <1>6 DEF DeleteReturning
  <2>2. doomed' = {}
    BY <1>6, <2>1 DEF DeleteReturning, Kept
  <2> QED BY <2>1, <2>2, RowsFewer
<1> QED BY <1>1, <1>2, <1>3, <1>4, <1>5, <1>6 DEF Next

\* The entries of a set of rows.
EntriesOf(rows) == {RowToEntry(r) : r \in rows}

\* There are as many entries as rows, for each has an id of its own.
LEMMA EntriesCount ==
    ASSUME RowsInv, NEW R \in SUBSET backups
    PROVE  /\ IsFiniteSet(R)
           /\ Cardinality(EntriesOf(R)) = Cardinality(R)
<1> DEFINE f == [r \in R |-> RowToEntry(r)]
<1>1. IsFiniteSet(R)
  BY FS_Subset DEF RowsInv
<1>2. f \in [R -> EntriesOf(R)]
  BY DEF EntriesOf
<1>3. \A r, s \in R : f[r] = f[s] => r = s
  <2> SUFFICES ASSUME NEW r \in R, NEW s \in R, f[r] = f[s] PROVE r = s
    OBVIOUS
  <2>1. RowToEntry(r).id = RowToEntry(s).id
    OBVIOUS
  <2>2. RowToEntry(r).id = r.id /\ RowToEntry(s).id = s.id
    BY RowAgrees DEF Agree
  <2> QED BY <2>1, <2>2 DEF RowsInv
<1>4. \A e \in EntriesOf(R) : \E r \in R : f[r] = e
  BY DEF EntriesOf
<1> HIDE DEF f
<1>5. f \in Bijection(R, EntriesOf(R))
  BY <1>2, <1>3, <1>4, Fun_IsBij
<1>6. ExistsBijection(R, EntriesOf(R))
  BY <1>5 DEF ExistsBijection
<1> QED BY <1>1, <1>6, FS_Bijection

\* A list of distinct rows as long as there are rows has all of them.
LEMMA ListsAll ==
    ASSUME NEW R, IsFiniteSet(R), NEW s \in NewestFirst(R)
    PROVE  /\ Cardinality(R) \in Nat
           /\ s \in [1 .. Cardinality(R) -> R]
           /\ \A r \in R : \E i \in 1 .. Cardinality(R) : s[i] = r
<1> DEFINE n == Cardinality(R)
<1>1. n \in Nat
  BY FS_CardinalityType
<1>2. s \in [1 .. n -> R]
  BY DEF NewestFirst
<1>3. \A i, j \in 1 .. n : i < j => s[i] # s[j]
  BY <1>2 DEF NewestFirst
<1> HIDE DEF n
<1>4. \A i, j \in 1 .. n : s[i] = s[j] => i = j
  BY <1>1, <1>3
<1>5. s \in Injection(1 .. n, R)
  BY <1>2, <1>4, Fun_IsInj
<1>6. Cardinality(1 .. n) = n
  BY <1>1, FS_Interval
<1>7. s \in Surjection(1 .. n, R)
  BY <1>5, <1>6, FS_Injection DEF n
<1> QED BY <1>1, <1>2, <1>7, Fun_SurjectionProperties DEF n

\* A row is read the same way before and after a step.
LEMMA SameReading ==
    ASSUME UNCHANGED backend
    PROVE  /\ \A r : RowToEntry(r)' = RowToEntry(r)
           /\ KeptTime(cutoff)' = KeptTime(cutoff')
           /\ EntriesOf(backups)' = EntriesOf(backups')
BY DEF RowToEntry, KeptTime, EntriesOf, Sqlite

\* What the abstract store has of the concrete one.
LEMMA StoreState ==
    /\ {RowToEntry(r) : r \in backups} = EntriesOf(backups)
    /\ (IF Sqlite THEN cutoff ELSE Micros(cutoff)) = KeptTime(cutoff)
BY DEF EntriesOf, KeptTime

\* insert_entry
LEMMA MapInsert == RowsInv /\ InsertEntry => Store!InsertEntry
<1> SUFFICES ASSUME RowsInv, InsertEntry PROVE Store!InsertEntry
  OBVIOUS
<1>1. PICK e \in Entries :
         /\ \A r \in backups : r.id # e.id
         /\ backups' = backups \cup {ToRow(e)}
  BY DEF InsertEntry
<1>2. UNCHANGED <<backend, cutoff>> /\ answer' = <<>>
  BY DEF InsertEntry
<1>3. PICK d : d = RowToEntry(ToRow(e))
  OBVIOUS
<1>4. d \in Store!Entries /\ d.id = e.id
  BY <1>3, RowOfEntry DEF Agree
<1>5. \A c \in EntriesOf(backups) : c.id # d.id
  BY <1>1, <1>4, RowAgrees DEF EntriesOf, Agree
<1>6. EntriesOf(backups)' = EntriesOf(backups) \cup {d}
  BY <1>1, <1>2, <1>3, SameReading DEF EntriesOf
<1>7. KeptTime(cutoff)' = KeptTime(cutoff)
  BY <1>2, SameReading
<1> QED BY <1>2, <1>4, <1>5, <1>6, <1>7
        DEF Store!InsertEntry, Store!NoEntries, EntriesOf, KeptTime

\* An operation that only reads leaves the entries and the cutoff.
LEMMA OnlyReads ==
    ASSUME UNCHANGED <<backend, backups, cutoff>>
    PROVE  /\ {RowToEntry(r) : r \in backups}' = {RowToEntry(r) : r \in backups}
           /\ (IF Sqlite THEN cutoff ELSE Micros(cutoff))'
                  = (IF Sqlite THEN cutoff ELSE Micros(cutoff))
BY DEF RowToEntry, Sqlite

\* The abstract store counts as the concrete one does.
LEMMA SameCount ==
    ASSUME NEW S PROVE Store!Cardinality(S) = Cardinality(S)
BY Zenon DEF Store!Cardinality, Cardinality, Store!IsFiniteSet, IsFiniteSet

\* list_backups: every row once, and newest first by the time that comes back.
LEMMA MapList == RowsInv /\ ListBackups => Store!ListBackups
<1> SUFFICES ASSUME RowsInv, ListBackups PROVE Store!ListBackups
  OBVIOUS
<1> DEFINE n == Cardinality(backups)
<1>1. PICK s \in NewestFirst(backups) :
         answer' = [i \in DOMAIN s |-> RowToEntry(s[i])]
  BY DEF ListBackups
<1>2. UNCHANGED <<backend, backups, cutoff>>
  BY DEF ListBackups
<1>3. /\ n \in Nat /\ s \in [1 .. n -> backups]
      /\ \A r \in backups : \E i \in 1 .. n : s[i] = r
  BY ListsAll DEF RowsInv
<1>4. Cardinality(EntriesOf(backups)) = n
  BY EntriesCount
<1>5. ASSUME NEW i \in 1 .. n, NEW j \in 1 .. n, i < j
      PROVE  ~Less(s[i].created_at, s[j].created_at)
  BY <1>3, <1>5 DEF NewestFirst
<1> HIDE DEF n
<1>6. answer' = [i \in 1 .. n |-> RowToEntry(s[i])]
  BY <1>1, <1>3
<1>7. DOMAIN answer' = 1 .. n /\ \A i \in 1 .. n : answer'[i] = RowToEntry(s[i])
  BY <1>6
<1>8. Len(answer') = n
  <2>1. answer' \in Seq(EntriesOf(backups))
    BY <1>3, <1>6 DEF EntriesOf
  <2> QED BY <1>3, <1>7, <2>1
<1>9. Store!Range(answer') = EntriesOf(backups)
  BY <1>3, <1>7 DEF Store!Range, EntriesOf
<1>10. ASSUME NEW i \in DOMAIN answer', NEW j \in DOMAIN answer', i < j
       PROVE  ~Before(answer'[i].at, answer'[j].at)
  <2>1. i \in 1 .. n /\ j \in 1 .. n /\ s[i] \in backups /\ s[j] \in backups
    BY <1>3, <1>7
  <2>2. ~Less(s[i].created_at, s[j].created_at)
    BY <1>5, <1>10, <2>1
  <2> QED BY <1>7, <2>1, <2>2, RowOrder
<1>11. Store!Cardinality(EntriesOf(backups)) = n
  BY <1>4, SameCount
<1> QED BY <1>2, <1>8, <1>9, <1>10, <1>11, OnlyReads, StoreState
        DEF Store!ListBackups, Store!Before, Before

\* get_backup: the row with the id, or none.
LEMMA MapGet == RowsInv /\ GetBackup => Store!GetBackup
<1> SUFFICES ASSUME RowsInv, GetBackup PROVE Store!GetBackup
  OBVIOUS
<1>1. PICK i \in Ids :
         IF {r \in backups : r.id = i} = {} THEN answer' = <<>>
         ELSE \E r \in {r \in backups : r.id = i} : answer' = <<RowToEntry(r)>>
  BY DEF GetBackup
<1>2. UNCHANGED <<backend, backups, cutoff>>
  BY DEF GetBackup
<1> DEFINE found == {e \in EntriesOf(backups) : e.id = i}
<1>3. Len(answer') = Store!Cardinality(found) /\ Store!Range(answer') = found
  <2>1. CASE {r \in backups : r.id = i} = {}
    <3>1. found = {}
      BY <2>1, RowAgrees DEF EntriesOf, Agree
    <3>2. answer' = <<>>
      BY <1>1, <2>1
    <3> HIDE DEF found
    <3>3. Len(answer') = 0 /\ DOMAIN answer' = {}
      BY <3>2
    <3>4. Store!Cardinality(found) = 0
      BY <3>1, FS_EmptySet, SameCount
    <3> QED BY <3>1, <3>3, <3>4 DEF Store!Range
  <2>2. CASE {r \in backups : r.id = i} # {}
    <3>1. PICK r \in backups : r.id = i /\ answer' = <<RowToEntry(r)>>
      BY <1>1, <2>2
    <3>2. PICK d : d = RowToEntry(r)
      OBVIOUS
    <3>3. ASSUME NEW s \in backups, RowToEntry(s).id = i PROVE s = r
      <4>1. s.id = i
        BY <3>3, RowAgrees DEF Agree
      <4> QED BY <3>1, <4>1 DEF RowsInv
    <3>4. d.id = i
      BY <3>1, <3>2, RowAgrees DEF Agree
    <3>5. found = {d}
      BY <3>1, <3>2, <3>3, <3>4 DEF EntriesOf
    <3> HIDE DEF found
    <3>6. answer' = <<d>>
      BY <3>1, <3>2
    <3>7. Len(answer') = 1 /\ DOMAIN answer' = {1} /\ answer'[1] = d
      BY <3>6
    <3>8. Store!Cardinality(found) = 1
      BY <3>5, FS_Singleton, SameCount
    <3> QED BY <3>5, <3>7, <3>8 DEF Store!Range
  <2> QED BY <2>1, <2>2
<1> QED BY <1>2, <1>3, OnlyReads, StoreState DEF Store!GetBackup

\* last_created_hash: that of a created entry than which none is later.
LEMMA MapLastHash == RowsInv /\ LastCreatedHash => Store!LastCreatedHash
<1> SUFFICES ASSUME RowsInv, LastCreatedHash PROVE Store!LastCreatedHash
  OBVIOUS
<1> DEFINE created == {e \in EntriesOf(backups) : e.status = "Created"}
<1>1. UNCHANGED <<backend, backups, cutoff>>
  BY DEF LastCreatedHash
<1>2. created = EntriesOf(Created)
  BY RowAgrees DEF Created, EntriesOf, Agree
<1>3. Created \subseteq backups
  BY DEF Created
<1> HIDE DEF created
<1>4. CASE Created = {}
  <2>1. created = {} /\ answer' = <<>>
    BY <1>2, <1>4 DEF EntriesOf, LastCreatedHash
  <2> QED BY <1>1, <2>1, OnlyReads, StoreState
          DEF created, Store!LastCreatedHash, Store!NoEntries
<1>5. CASE Created # {}
  <2>1. PICK s \in NewestFirst(Created) :
           answer' = <<[hash |-> s[1].content_hash]>>
    BY <1>5 DEF LastCreatedHash
  <2> DEFINE n == Cardinality(Created)
  <2>2. IsFiniteSet(Created)
    BY <1>3, EntriesCount
  <2>3. /\ n \in Nat /\ s \in [1 .. n -> Created]
        /\ \A r \in Created : \E i \in 1 .. n : s[i] = r
    BY <2>2, ListsAll
  <2>4. \A i, j \in 1 .. n :
           i < j => ~Less(s[i].created_at, s[j].created_at)
    BY <2>3 DEF NewestFirst
  <2> HIDE DEF n
  <2>5. 1 \in 1 .. n
    BY <1>5, <2>3
  <2>6. PICK q : q = s[1]
    OBVIOUS
  <2>7. q \in Created /\ q \in backups
    BY <1>3, <2>3, <2>5, <2>6
  <2>8. ASSUME NEW r \in Created
        PROVE  ~Before(RowToEntry(q).at, RowToEntry(r).at)
    <3>1. PICK j \in 1 .. n : s[j] = r
      BY <2>3
    <3>2. CASE j = 1
      <4>1. RowToEntry(q).at \in AllInstants
        <5>1. PICK t \in Instants : RowToEntry(q).at = KeptTime(t)
          BY <2>7, RowAgrees DEF Agree
        <5> QED BY <5>1, ReadBack
      <4> QED BY <2>6, <3>1, <3>2, <4>1, BeforeIrreflexive
    <3>3. CASE j # 1
      <4>1. 1 < j
        BY <2>3, <3>3
      <4>2. ~Less(q.created_at, r.created_at)
        BY <2>4, <2>5, <2>6, <3>1, <4>1
      <4> QED BY <1>3, <2>7, <4>2, RowOrder
    <3> QED BY <3>2, <3>3
  <2>9. PICK e : e = RowToEntry(q)
    OBVIOUS
  <2>10. e \in created /\ e.hash = q.content_hash
    BY <1>2, <2>7, <2>9, RowAgrees DEF EntriesOf, Agree
  <2>11. \A d \in created : ~Before(e.at, d.at)
    BY <1>2, <2>8, <2>9 DEF EntriesOf
  <2>12. answer' = <<[hash |-> e.hash]>>
    BY <2>1, <2>6, <2>10
  <2>13. created # {}
    BY <2>10
  <2>14. \A d \in created : ~Store!Before(e.at, d.at)
    BY <2>11 DEF Store!Before, Before
  <2> QED BY <1>1, <2>10, <2>12, <2>13, <2>14, OnlyReads, StoreState
          DEF created, Store!LastCreatedHash, Store!NoEntries
<1> QED BY <1>4, <1>5

\* A step that deletes created rows which are before the cutoff is a pruning of
\* the abstract store; so is one that deletes none.
LEMMA MapFewer ==
    ASSUME RowsInv, UNCHANGED backend, answer' = <<>>, cutoff' \in Instants,
           NEW gone \in SUBSET Expired(cutoff'), backups' = backups \ gone
    PROVE  Store!PruneCreatedBefore
<1> DEFINE G == EntriesOf(gone)
<1>1. KeptTime(cutoff)' = KeptTime(cutoff')
  BY SameReading
<1>2. KeptTime(cutoff') \in Times
  BY ReadBack
<1>3. gone \subseteq backups
  BY DEF Expired, Created
<1>4. G \in SUBSET EntriesOf(backups)
  BY <1>3 DEF EntriesOf
<1>5. \A e \in G : e.status = "Created" /\ Before(e.at, KeptTime(cutoff'))
  BY ExpiredByTime DEF EntriesOf
<1>6. \A r \in backups, s \in gone : RowToEntry(r) = RowToEntry(s) => r = s
  <2> SUFFICES ASSUME NEW r \in backups, NEW s \in gone,
                      RowToEntry(r) = RowToEntry(s)
               PROVE  r = s
    OBVIOUS
  <2>1. r.id = s.id
    BY <1>3, RowAgrees DEF Agree
  <2> QED BY <1>3, <2>1 DEF RowsInv
<1>7. EntriesOf(backups') = EntriesOf(backups) \ G
  BY <1>6 DEF EntriesOf
<1>8. EntriesOf(backups)' = EntriesOf(backups) \ G
  BY <1>7, SameReading
<1> HIDE DEF G
<1>9. PICK E, c : E = EntriesOf(backups) /\ c = KeptTime(cutoff)'
  OBVIOUS
<1>10. {RowToEntry(r) : r \in backups}' = E \ G
  BY <1>8, <1>9 DEF EntriesOf
<1>11. (IF Sqlite THEN cutoff ELSE Micros(cutoff))' = c
  BY <1>9 DEF KeptTime
<1>12. \A e \in G : e.status = "Created" /\ Store!Before(e.at, c)
  BY <1>1, <1>5, <1>9 DEF Store!Before, Before
<1>13. c \in Times
  BY <1>1, <1>2, <1>9
<1> QED BY <1>4, <1>9, <1>10, <1>11, <1>12, <1>13, StoreState
        DEF Store!PruneCreatedBefore, Store!NoEntries

\* prune_created_before: one statement in Postgres; in SQLite the SELECT, which
\* deletes nothing, then each DELETE.
LEMMA MapPrune ==
    RowsInv /\ (SelectDoomed \/ DeleteRow \/ DeleteReturning)
        => Store!PruneCreatedBefore
<1> SUFFICES ASSUME RowsInv, SelectDoomed \/ DeleteRow \/ DeleteReturning
             PROVE  Store!PruneCreatedBefore
  OBVIOUS
<1>1. CASE SelectDoomed
  <2>1. /\ UNCHANGED backend /\ answer' = <<>> /\ cutoff' \in Instants
        /\ backups' = backups \ {}
    BY <1>1 DEF SelectDoomed
  <2> QED BY <2>1, MapFewer
<1>2. CASE DeleteRow
  <2>1. UNCHANGED <<backend, cutoff>> /\ answer' = <<>>
    BY <1>2 DEF DeleteRow
  <2>2. PICK r \in doomed : backups' = {s \in backups : s.id # r.id}
    BY <1>2 DEF DeleteRow
  <2>3. r \in Expired(cutoff') /\ r \in backups
    BY <2>1, <2>2 DEF RowsInv, Expired, Created
  <2>4. backups' = backups \ {r}
    BY <2>2, <2>3 DEF RowsInv
  <2>5. {r} \in SUBSET Expired(cutoff') /\ cutoff' \in Instants
    BY <2>1, <2>3 DEF RowsInv
  <2> QED BY <2>1, <2>4, <2>5, MapFewer
<1>3. CASE DeleteReturning
  <2>1. /\ UNCHANGED backend /\ answer' = <<>> /\ cutoff' \in Instants
        /\ backups' = backups \ Expired(cutoff')
    BY <1>3 DEF DeleteReturning
  <2> QED BY <2>1, MapFewer
<1> QED BY <1>1, <1>2, <1>3

\* SqliteStore and PostgresStore keep the promises of the trait MetadataStore,
\* whatever the times, ids, hashes and number of rows: entries come back as they
\* were inserted, lists are complete and newest first, the last hash is that of a
\* newest created entry, and pruning deletes old created entries only, in SQLite
\* one by one and with other operations in between.
THEOREM StoresImplementMetadataStore == Spec => ImplementsMetadataStore
<1> DEFINE Inv == Kept /\ RowsInv
<1>1. Init => Inv
  <2> SUFFICES ASSUME Init PROVE Inv
    OBVIOUS
  <2>1. Kept
    BY InstantAssumption DEF Init, Kept
  <2>2. IsFiniteSet(backups)
    BY FS_EmptySet DEF Init
  <2> QED BY <2>1, <2>2 DEF Init, RowsInv
<1>2. Inv /\ [Next]_vars => Inv'
  BY KeptNext, RowsNext
<1>3. Init => Store!Init
  <2> SUFFICES ASSUME Init PROVE Store!Init
    OBVIOUS
  <2>1. KeptTime(cutoff) \in Times
    BY ReadBack DEF Init
  <2>2. EntriesOf(backups) = {} /\ answer = <<>>
    BY DEF Init, EntriesOf
  <2> QED BY <2>1, <2>2, StoreState DEF Store!Init, Store!NoEntries
<1>4. Inv /\ [Next]_vars => [Store!Next]_(Store!vars)
  <2> SUFFICES ASSUME RowsInv, [Next]_vars PROVE [Store!Next]_(Store!vars)
    OBVIOUS
  <2>1. CASE InsertEntry
    BY <2>1, MapInsert DEF Store!Next
  <2>2. CASE ListBackups
    BY <2>2, MapList DEF Store!Next
  <2>3. CASE GetBackup
    BY <2>3, MapGet DEF Store!Next
  <2>4. CASE LastCreatedHash
    BY <2>4, MapLastHash DEF Store!Next
  <2>5. CASE SelectDoomed \/ DeleteRow \/ DeleteReturning
    BY <2>5, MapPrune DEF Store!Next
  <2>6. CASE DeleteFails \/ UNCHANGED vars
    <3>1. UNCHANGED <<backend, backups, cutoff, answer>>
      BY <2>6 DEF DeleteFails, vars
    <3> QED BY <3>1, OnlyReads DEF Store!vars
  <2> QED BY <2>1, <2>2, <2>3, <2>4, <2>5, <2>6 DEF Next
<1> HIDE DEF Inv
<1> QED BY <1>1, <1>2, <1>3, <1>4, PTL DEF Spec, ImplementsMetadataStore, Store!Spec
=============================================================================
