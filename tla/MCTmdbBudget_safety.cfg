\* Three callers race for a bucket of one and a half tokens that gains half a
\* token a tick, with pauses that overlap.
SPECIFICATION Spec
CONSTANTS
    Callers = {c1, c2, c3}
    Deadlines = {2}
    RetryAfters = {1, 2}
    Whole = 2
    Rate = 1
    Capacity = 3
    MaxTime = 4
    Marks = {0, 2}
SYMMETRY CallerSymmetry
INVARIANTS
    TypeOK
    RateBound
    SleepNotTooLong
PROPERTIES
    GrantRespectsPause
\* The clock is bounded: when it has run out nobody has anything left to do.
CHECK_DEADLOCK FALSE
