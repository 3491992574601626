------------------------------- MODULE Scheduler -------------------------------
(***************************************************************************)
(* When scheduler_loop (crates/daemon/src/main.rs) runs: it sleeps for the *)
(* rest of the hour, counted in whole seconds, and then works for a while. *)
(* Time is counted in ticks.  The sleep ends MaxLag ticks late at most,    *)
(* and a cycle (sync, run_once, pruning) takes MaxCycle ticks at most; the *)
(* wall clock is steady.                                                   *)
(***************************************************************************)
EXTENDS Integers

CONSTANTS
    TicksPerSecond, SecondsPerMinute, MinutesPerHour,
    MaxLag,     \* delay of tokio's timer and of the runtime
    MaxCycle,   \* at most six requests of 300 s, and the work on the disk
    MaxTime     \* bound on the clock

Hour == TicksPerSecond * SecondsPerMinute * MinutesPerHour

ASSUME TimeAssumption ==
    /\ TicksPerSecond \in Nat \ {0}
    /\ SecondsPerMinute \in Nat \ {0}
    /\ MinutesPerHour \in Nat \ {0}
    /\ MaxLag \in Nat /\ MaxCycle \in Nat /\ MaxTime \in Nat
    /\ TicksPerSecond + MaxLag + MaxCycle <= Hour

VARIABLES
    now,       \* Utc::now()
    working,   \* the loop is past its sleep
    wake,      \* when the sleep is over
    start,     \* history: when the last cycle began, -1 before the first
    previous   \* history: when the cycle before that one began

vars == <<now, working, wake, start, previous>>

-----------------------------------------------------------------------------
\* The components of a time, as Timelike gives them.
Second(t) == (t \div TicksPerSecond) % SecondsPerMinute
Minute(t) == (t \div (TicksPerSecond * SecondsPerMinute)) % MinutesPerHour

SecsIgnoringSeconds(t) ==
    SecondsPerMinute * MinutesPerHour - Minute(t) * SecondsPerMinute

SecsToNextHour(t) ==
    SecondsPerMinute * MinutesPerHour
        - (Minute(t) * SecondsPerMinute + Second(t))

AtLeastOne(s) == IF s < 1 THEN 1 ELSE s

WakeAfterSleepingShort(t) == t + TicksPerSecond * (AtLeastOne(SecsToNextHour(t)) - 1)

\* sleep(Duration::from_secs(secs_to_next_hour.max(1)))
WakeTime(t) == t + TicksPerSecond * AtLeastOne(SecsToNextHour(t))

TypeOK ==
    /\ now \in Nat /\ working \in BOOLEAN /\ wake \in Nat
    /\ start \in Int /\ previous \in Int

Init ==
    /\ now \in 0 .. Hour - 1
    /\ working = FALSE
    /\ wake = WakeTime(now)
    /\ start = -1 /\ previous = -1

Begin ==
    /\ ~working /\ wake <= now
    /\ working' = TRUE
    /\ start' = now /\ previous' = start
    /\ UNCHANGED <<now, wake>>

\* The loop goes round: the time is read again and the next sleep begins.
End ==
    /\ working
    /\ working' = FALSE
    /\ wake' = WakeTime(now)
    /\ UNCHANGED <<now, start, previous>>

Tick ==
    /\ now < MaxTime
    /\ IF working THEN now < start + MaxCycle ELSE now < wake + MaxLag
    /\ now' = now + 1
    /\ UNCHANGED <<working, wake, start, previous>>

Next == Begin \/ End \/ Tick

Spec == Init /\ [][Next]_vars

-----------------------------------------------------------------------------
\* README.md: `the scheduler runs every hour on the hour'.  A cycle begins in the
\* first second of an hour, or MaxLag later: cutting off the fraction of a second
\* makes the sleep too long by less than one, and never too short.
OnTheHour == start >= 0 => start % Hour < TicksPerSecond + MaxLag

\* `once per hour': of two cycles that follow each other, the second one begins
\* in the hour after the first.  No hour has two and none is left out.
OncePerHour ==
    previous >= 0 => start \div Hour = previous \div Hour + 1
=============================================================================
