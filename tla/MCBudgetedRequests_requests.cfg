\* Two callers on a budget of one token at a time.
SPECIFICATION RequestSpec
CONSTANTS
    Callers = {c1, c2}
    Deadlines = {1, 2}
    RetryAfters = {2}
    Whole = 1
    Rate = 1
    Capacity = 1
    MaxTime = 9
    Marks = {9}
    Requests <- MCRequests
    FoundKinds <- Found
    Short = 1
    Long = 2
    Flight = 1
    Nobody = Nobody
INVARIANTS
    RequestTypeOK
    CallsAreBounded
    NobodyIsPinned
PROPERTIES
    EveryRequestEnds
CHECK_DEADLOCK FALSE
