\* Two timers and room for three: del_timer() on the last slot.
CONSTANTS
    Timers = {t1, t2}
    Null = nullptr
    MAX_HEAP_SIZE = 4
    TIMESLOT = 1
    MaxClock = 3
SPECIFICATION Spec
INVARIANT DelTimerReturns
CHECK_DEADLOCK FALSE
