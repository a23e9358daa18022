\* What the program does when bind() fails: one thread has logged one line and exits.
CONSTANTS
    Loggers = {l1}
    NoThread = none
    Capacity = 2
    MAX_LINES = 2
    MaxLines = 1
    MaxDay = 0
SPECIFICATION FairSpec
PROPERTIES ThreadReclaimed
CHECK_DEADLOCK FALSE
