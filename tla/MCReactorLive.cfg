\* One slot and one worker for two connections, and two SIGTERMs that may fill the self-pipe.
CONSTANTS
    Slots = {s1}
    NoSlot = none
    Workers = {w1}
    MaxRequests = 1
    TIMESLOT = 1
    HeapCapacity = 2
    PipeRoom = 2
    MaxTerms = 2
    MaxConns = 2
    MaxClock = 3
SPECIFICATION FairSpec
INVARIANT OneAlarm
PROPERTIES TimedOut ComesBack
CHECK_DEADLOCK FALSE
