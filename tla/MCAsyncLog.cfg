\* Two threads that log and a queue for two lines, so that a line can find it full; a
\* file is full after two lines and a day passes.  The run stops when the program has
\* exited.
CONSTANTS
    Loggers = {l1, l2}
    NoThread = none
    Capacity = 2
    MAX_LINES = 2
    MaxLines = 3
    MaxDay = 1
SPECIFICATION FairSpec
INVARIANTS TypeOK PushNeverWaits OrderKept FileFits
PROPERTIES LinesWritten ImplementsLineLog
CHECK_DEADLOCK FALSE
