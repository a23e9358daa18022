\* Two slots, two workers, three connections and four instants of the clock: a connection
\* that never sends is timed out, and so is one that a worker is busy with, whose slot
\* another connection then takes over; all slots taken; a list of requests that is full of
\* old tasks when append() is called; and a heap that a forgotten timer fills up.
CONSTANTS
    Slots = {s1, s2}
    NoSlot = none
    Workers = {w1, w2}
    MaxRequests = 1
    TIMESLOT = 1
    HeapCapacity = 2
    PipeRoom = 1
    MaxTerms = 0
    MaxConns = 3
    MaxClock = 3
SYMMETRY ReactorSymmetry
SPECIFICATION Spec
INVARIANTS TypeOK CountExact EventsLive OneOwner OwnBytes TimersMatch OneWorkerUnlessStale
PROPERTY OnlyTickClosesBusy
CHECK_DEADLOCK FALSE
