\* Two connections, one after the other, on one HttpConn.  The read buffer has room for two
\* plain requests and not for the longest one; a file does not fit into the send buffer.
CONSTANTS
    Paths <- MCPaths
    Files <- MCFiles
    LengthOf <- MCLengthOf
    Scripts <- MCScripts
    READ_BUFFER_SIZE = 25
    WRITE_BUFFER_SIZE = 10
    SendBuffer = 7
    MaxConns = 2
SPECIFICATION FairSpec
INVARIANTS TypeOK VerdictRight AnswersInOrder MappedWhileSending
PROPERTIES KeepAliveHonoured SentWhole RequestServed
CHECK_DEADLOCK FALSE
