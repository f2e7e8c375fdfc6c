SPECIFICATION Spec
CONSTANTS
    Requests = {"r1"}
    FileSize = 2
    Buffer = 1
    Loads <- MCReaders
INVARIANT ReturnsStream
CHECK_DEADLOCK FALSE
