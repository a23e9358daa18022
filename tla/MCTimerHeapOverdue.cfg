\* Two timers and room for three: a deadline that main moves to an earlier time.
CONSTANTS
    Timers = {t1, t2}
    Null = nullptr
    MAX_HEAP_SIZE = 4
    TIMESLOT = 1
    MaxClock = 3
SPECIFICATION Spec
INVARIANT NoneOverdue
CHECK_DEADLOCK FALSE
