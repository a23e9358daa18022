\* A vector of 3 bytes that has to hold up to 4, given in pieces of up to 3.
CONSTANTS
    Strings <- MCStrings
    NUL = "0"
    Bytes = {"0", "a", "b", "c"}
    InitBuffSize = 3
    ExtraSize = 2
    MaxContent = 4
SPECIFICATION Spec
INVARIANTS TypeOK SizeBounded
PROPERTY ImplementsByteQueue
CHECK_DEADLOCK FALSE
