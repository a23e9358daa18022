\* Two connections and a heap with room to spare: a timer that write() left behind.
CONSTANTS
    Slots = {s1, s2}
    NoSlot = none
    Workers = {w1, w2}
    MaxRequests = 1
    TIMESLOT = 1
    HeapCapacity = 3
    PipeRoom = 1
    MaxTerms = 0
    MaxConns = 2
    MaxClock = 4
SYMMETRY ReactorSymmetry
SPECIFICATION Spec
INVARIANT NotClosedEarly
CHECK_DEADLOCK FALSE
