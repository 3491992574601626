\* An hour of two minutes of three seconds of two ticks.
CONSTANTS
    TicksPerSecond = 2
    SecondsPerMinute = 3
    MinutesPerHour = 2
    MaxLag = 1
    MaxCycle = 9
    MaxTime = 50
SPECIFICATION Spec
INVARIANT OnTheHour
INVARIANT OncePerHour
CHECK_DEADLOCK FALSE
