\* Six nodes and an array with room for five timers: a root, two children and two
\* grandchildren, and an add_timer() beyond the end of the array.  The run stops where
\* the process has died.
CONSTANTS
    Timers = {t1, t2, t3, t4, t5, t6}
    Null = nullptr
    MAX_HEAP_SIZE = 6
    TIMESLOT = 1
    MaxClock = 4
SYMMETRY TimerSymmetry
SPECIFICATION Spec
INVARIANTS TypeOK IndexConsistent OrderedUnlessShortened NoneOverdueUnlessShortened
PROPERTIES ImplementsTimerSet
CHECK_DEADLOCK FALSE
