\* Two callers, a tick that brings more than half a token, and a deadline that
\* ends before, with and after the pauses.
SPECIFICATION Spec
CONSTANTS
    Callers = {c1, c2}
    Deadlines = {0, 2}
    RetryAfters = {1, 3}
    Whole = 3
    Rate = 2
    Capacity = 4
    MaxTime = 4
    Marks = {9}
PROPERTIES
    EveryAcquireReturns
    KeepsPromise
CHECK_DEADLOCK FALSE
