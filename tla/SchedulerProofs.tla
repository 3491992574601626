---------------------------- MODULE SchedulerProofs ----------------------------
(***************************************************************************)
(* Cycles begin on the hour and once in an hour, for every resolution of   *)
(* the clock and every length of minutes and hours, as long as a cycle and *)
(* the delay of the timer fit into an hour (TimeAssumption).               *)
(***************************************************************************)
EXTENDS Scheduler, TLAPS

-----------------------------------------------------------------------------
\* Euclid's division, which Second and Minute rest on.
LEMMA Euclid ==
    ASSUME NEW n \in Nat, NEW d \in Nat \ {0}
    PROVE  /\ n \div d \in Nat
           /\ n % d \in 0 .. d - 1
           /\ n = d * (n \div d) + (n % d)
OBVIOUS

\* Quotient and remainder are the only ones with these bounds.
LEMMA EuclidUnique ==
    ASSUME NEW d \in Nat \ {0}, NEW q \in Nat, NEW r \in 0 .. d - 1,
           NEW n \in Nat, n = d * q + r
    PROVE  n \div d = q /\ n % d = r
<1>1. n \div d \in Nat /\ n % d \in 0 .. d - 1 /\ n = d * (n \div d) + (n % d)
  BY Euclid
<1>2. d * (q - n \div d) = (n % d) - r
  BY <1>1
<1>3. q - n \div d < 1
  <2>1. SUFFICES ASSUME q - n \div d >= 1 PROVE FALSE
    BY <1>1
  <2>2. d * (q - n \div d) >= d
    BY <1>1, <2>1
  <2> QED BY <1>1, <1>2, <2>2
<1>4. q - n \div d > -1
  <2>1. SUFFICES ASSUME q - n \div d <= -1 PROVE FALSE
    BY <1>1
  <2>2. d * (q - n \div d) <= -d
    BY <1>1, <2>1
  <2> QED BY <1>1, <1>2, <2>2
<1>5. q = n \div d
  BY <1>1, <1>3, <1>4
<1> QED BY <1>1, <1>5

\* A time up to d later is in the same unit of length d, if its remainder allows.
LEMMA SameUnit ==
    ASSUME NEW d \in Nat \ {0}, NEW t \in Nat, NEW k \in Nat,
           (t % d) + k < d
    PROVE  (t + k) \div d = t \div d /\ (t + k) % d = (t % d) + k
<1>1. t \div d \in Nat /\ t % d \in 0 .. d - 1 /\ t = d * (t \div d) + (t % d)
  BY Euclid
<1> DEFINE r == (t % d) + k
           q == t \div d
           n == t + k
<1>2. r \in 0 .. d - 1
  BY <1>1
<1>3. n = d * q + r
  BY <1>1
<1>4. n \in Nat /\ q \in Nat
  BY <1>1
<1> HIDE DEF r, q, n
<1>5. n \div d = q /\ n % d = r
  BY <1>2, <1>3, <1>4, EuclidUnique
<1> QED BY <1>5 DEF r, q, n

-----------------------------------------------------------------------------
\* The sleep ends in the first second of the next hour.
LEMMA WakesOnTheHour ==
    ASSUME NEW t \in Nat
    PROVE  /\ WakeTime(t) \in Nat
           /\ WakeTime(t) >= t
           /\ WakeTime(t) % Hour < TicksPerSecond
           /\ WakeTime(t) \div Hour = t \div Hour + 1
<1> DEFINE a == TicksPerSecond
           b == SecondsPerMinute
           c == MinutesPerHour
           u == t \div a
           f == t % a
           m == u \div b
           s == u % b
           h == m \div c
           n == m % c
<1>1. a \in Nat \ {0} /\ b \in Nat \ {0} /\ c \in Nat \ {0}
  BY TimeAssumption
<1>2. u \in Nat /\ f \in 0 .. a - 1 /\ t = a * u + f
  BY <1>1, Euclid
<1> HIDE DEF u, f
<1>3. m \in Nat /\ s \in 0 .. b - 1 /\ u = b * m + s
  BY <1>1, <1>2, Euclid
<1> HIDE DEF m, s
<1>4. h \in Nat /\ n \in 0 .. c - 1 /\ m = c * h + n
  BY <1>1, <1>3, Euclid
<1> HIDE DEF h, n, a, b, c
<1>5. Second(t) = s
  BY DEF Second, s, u, a, b
<1>6. Minute(t) = n
  <2>1. a * b \in Nat \ {0}
    BY <1>1
  <2>2. a * s + f \in 0 .. a * b - 1
    <3>1. a * s <= a * (b - 1)
      BY <1>1, <1>3
    <3>2. a * (b - 1) = a * b - a
      BY <1>1
    <3>3. a * s \in Nat
      BY <1>1, <1>3
    <3> QED BY <1>1, <1>2, <2>1, <3>1, <3>2, <3>3
  <2>3. t = (a * b) * m + (a * s + f)
    <3>1. a * (b * m + s) = (a * b) * m + a * s
      BY <1>1, <1>3
    <3> QED BY <1>1, <1>2, <1>3, <3>1
  <2>4. t \div (a * b) = m
    BY <1>3, <2>1, <2>2, <2>3, EuclidUnique
  <2> QED BY <2>4 DEF Minute, n, a, b, c
<1>7. SecsToNextHour(t) = b * c - (n * b + s)
  BY <1>5, <1>6 DEF SecsToNextHour, b, c
<1>8. b * c - (n * b + s) >= 1 /\ b * c - (n * b + s) \in Int
  <2>1. n * b <= (c - 1) * b
    BY <1>1, <1>4
  <2>2. (c - 1) * b = b * c - b
    BY <1>1
  <2>3. n * b \in Nat /\ b * c \in Nat
    BY <1>1, <1>4
  <2> QED BY <1>1, <1>3, <2>1, <2>2, <2>3
<1>9. WakeTime(t) = t + a * (b * c - (n * b + s))
  BY <1>7, <1>8 DEF WakeTime, AtLeastOne, a
<1>10. WakeTime(t) = (a * b * c) * (h + 1) + f
  <2>1. t = a * (b * (c * h + n) + s) + f
    BY <1>2, <1>3, <1>4
  <2> QED BY <1>1, <1>2, <1>3, <1>4, <1>9, <2>1
<1>11. Hour = a * b * c /\ Hour \in Nat \ {0}
  BY <1>1 DEF Hour, a, b, c
<1>12. t = Hour * h + (a * b * n + a * s + f)
  <2>1. t = a * (b * (c * h + n) + s) + f
    BY <1>2, <1>3, <1>4
  <2> QED BY <1>1, <1>2, <1>3, <1>4, <1>11, <2>1
<1>13. a * b * n + a * s + f \in 0 .. Hour - 1
  <2>1. a * s <= a * b - a /\ a * s \in Nat
    <3>1. a * s <= a * (b - 1)
      BY <1>1, <1>3
    <3> QED BY <1>1, <1>3, <3>1
  <2>2. a * b * n <= a * b * c - a * b /\ a * b * n \in Nat
    <3>1. a * b \in Nat
      BY <1>1
    <3>2. (a * b) * n <= (a * b) * (c - 1)
      BY <1>1, <1>4, <3>1
    <3> QED BY <1>1, <1>4, <3>1, <3>2
  <2> QED BY <1>1, <1>2, <1>11, <2>1, <2>2
<1>14. t \div Hour = h
  BY <1>4, <1>11, <1>12, <1>13, EuclidUnique
<1>15. a <= Hour /\ f \in 0 .. Hour - 1
  <2>1. b * c >= 1 /\ b * c \in Nat
    BY <1>1
  <2>2. a * (b * c) >= a
    BY <1>1, <2>1
  <2> QED BY <1>1, <1>2, <1>11, <2>1, <2>2
<1>16. h + 1 \in Nat /\ WakeTime(t) = Hour * (h + 1) + f /\ WakeTime(t) \in Nat
  BY <1>4, <1>10, <1>11, <1>2
<1>17. WakeTime(t) \div Hour = h + 1 /\ WakeTime(t) % Hour = f
  BY <1>11, <1>15, <1>16, EuclidUnique
<1>18. a * (b * c - (n * b + s)) >= 0
  BY <1>1, <1>8
<1> QED BY <1>1, <1>2, <1>9, <1>14, <1>16, <1>17, <1>18, <1>8 DEF a
-----------------------------------------------------------------------------
\* The inductive invariant.  While the loop sleeps, it will wake in the first
\* second of the hour after the last cycle; while it works, it is still in the
\* hour in which the cycle began.
Inv ==
    /\ TypeOK
    /\ previous >= 0 => start >= 0 /\ OncePerHour
    /\ start >= 0 => start % Hour < TicksPerSecond + MaxLag
    /\ start >= -1
    /\ ~working =>
          /\ wake % Hour < TicksPerSecond
          /\ start >= 0 => wake \div Hour = start \div Hour + 1
          /\ now <= wake + MaxLag
    /\ working => start >= 0 /\ start <= now /\ now <= start + MaxCycle

LEMMA HourType == Hour \in Nat \ {0}
<1>1. TicksPerSecond * SecondsPerMinute \in Nat \ {0}
  BY TimeAssumption
<1> QED BY <1>1, TimeAssumption DEF Hour

LEMMA InvInit == Init => Inv
<1> SUFFICES ASSUME Init PROVE Inv
  OBVIOUS
<1>1. now \in Nat
  BY HourType DEF Init
<1>2. wake \in Nat /\ wake >= now /\ wake % Hour < TicksPerSecond
  BY <1>1, WakesOnTheHour DEF Init
<1>3. working = FALSE /\ start = -1 /\ previous = -1
  BY DEF Init
<1>4. TypeOK
  <2>1. working \in BOOLEAN
    BY <1>3, Zenon
  <2> QED BY <1>1, <1>2, <1>3, <2>1 DEF TypeOK
<1>5. ~(previous >= 0) /\ ~(start >= 0) /\ start >= -1
  BY <1>3
<1>6. now <= wake + MaxLag
  BY <1>1, <1>2, TimeAssumption
<1> QED BY <1>2, <1>3, <1>4, <1>5, <1>6 DEF Inv

LEMMA InvNext == Inv /\ [Next]_vars => Inv'
<1> SUFFICES ASSUME Inv, [Next]_vars PROVE Inv'
  OBVIOUS
<1>0. /\ MaxLag \in Nat /\ MaxCycle \in Nat /\ Hour \in Nat \ {0}
      /\ TicksPerSecond \in Nat /\ TicksPerSecond + MaxLag + MaxCycle <= Hour
  BY TimeAssumption, HourType
<1>1. CASE Begin
  <2>1. wake \in Nat /\ now \in Nat /\ wake <= now /\ now <= wake + MaxLag
        /\ wake % Hour < TicksPerSecond
    BY <1>1 DEF Begin, Inv, TypeOK
  <2>2. now - wake \in Nat /\ now - wake <= MaxLag /\ wake + (now - wake) = now
    BY <1>0, <2>1
  <2>3. wake % Hour \in 0 .. Hour - 1
    BY <1>0, <2>1, Euclid
  <2>4. (wake % Hour) + (now - wake) < TicksPerSecond + MaxLag
    BY <1>0, <2>1, <2>2, <2>3
  <2>5. (wake % Hour) + (now - wake) < Hour
    BY <1>0, <2>2, <2>3, <2>4
  <2>6. /\ (wake + (now - wake)) \div Hour = wake \div Hour
        /\ (wake + (now - wake)) % Hour = (wake % Hour) + (now - wake)
    BY <2>1, <2>2, <2>5, <1>0, SameUnit
  <2>7. now \div Hour = wake \div Hour /\ now % Hour < TicksPerSecond + MaxLag
    BY <2>2, <2>4, <2>6
  <2>8. start >= 0 => now \div Hour = start \div Hour + 1
    BY <1>1, <2>7 DEF Begin, Inv
  <2> QED BY <1>0, <1>1, <2>1, <2>7, <2>8 DEF Begin, Inv, TypeOK, OncePerHour
<1>2. CASE End
  <2>1. /\ now \in Nat /\ start \in Nat /\ start <= now /\ now <= start + MaxCycle
        /\ start % Hour < TicksPerSecond + MaxLag
    BY <1>2 DEF End, Inv, TypeOK
  <2>2. now - start \in Nat /\ start + (now - start) = now
    BY <2>1
  <2>3. start % Hour \in 0 .. Hour - 1
    BY <1>0, <2>1, Euclid
  <2>4. (start % Hour) + (now - start) < Hour
    BY <1>0, <2>1, <2>2, <2>3
  <2>5. now \div Hour = start \div Hour
    BY <2>1, <2>2, <2>4, <1>0, SameUnit
  <2>6. /\ wake' \in Nat /\ wake' >= now
        /\ wake' % Hour < TicksPerSecond
        /\ wake' \div Hour = now \div Hour + 1
    BY <1>2, <2>1, WakesOnTheHour DEF End
  <2>7. /\ working' = FALSE /\ now' = now
        /\ start' = start /\ previous' = previous
    BY <1>2 DEF End
  <2>8. TypeOK'
    <3>1. working' \in BOOLEAN
      BY <2>7, Zenon
    <3> QED BY <2>1, <2>6, <2>7, <3>1 DEF Inv, TypeOK
  <2>9. (previous >= 0 => start >= 0 /\ OncePerHour)'
    BY <2>7 DEF Inv, OncePerHour
  <2>10. (start >= 0 => start % Hour < TicksPerSecond + MaxLag)' /\ start' >= -1
    BY <2>7 DEF Inv
  <2>11. now' <= wake' + MaxLag
    <3>1. now' \in Nat /\ wake' \in Nat /\ wake' >= now'
      BY <2>1, <2>6, <2>7
    <3>2. \A x, y, z \in Nat : x >= y => y <= x + z
      OBVIOUS
    <3>3. MaxLag \in Nat
      BY <1>0
    <3> QED BY <3>1, <3>2, <3>3
  <2>12. wake' \div Hour = start' \div Hour + 1
    BY <2>5, <2>6, <2>7
  <2> QED BY <2>6, <2>7, <2>8, <2>9, <2>10, <2>11, <2>12 DEF Inv
<1>3. CASE Tick
  BY <1>0, <1>3 DEF Tick, Inv, TypeOK, OncePerHour
<1>4. CASE UNCHANGED vars
  BY <1>0, <1>4 DEF vars, Inv, TypeOK, OncePerHour
<1> QED BY <1>1, <1>2, <1>3, <1>4 DEF Next

\* `The scheduler runs every hour on the hour': every cycle of scheduler_loop
\* begins in the first second of an hour, give or take the delay of the timer.
THEOREM RunsOnTheHour == Spec => []OnTheHour
<1>1. Inv => OnTheHour
  BY DEF Inv, OnTheHour
<1> QED BY <1>1, InvInit, InvNext, PTL DEF Spec

\* `Once per hour': a cycle of scheduler_loop begins in the hour after the one
\* before it; no hour has two and none is left out.
THEOREM RunsOncePerHour == Spec => []OncePerHour
<1>1. Inv => OncePerHour
  BY DEF Inv, OncePerHour
<1> QED BY <1>1, InvInit, InvNext, PTL DEF Spec
=============================================================================
